---------------------------- MODULE Spec2Model ----------------------------
(***************************************************************************)
(* Model of the document converters of tauri-wysiwyg-md                    *)
(* (src-tauri/src/convert): Markdown <-> docx / xlsx / pptx.               *)
(*                                                                         *)
(* Text is modelled character by character: a Rust String is a sequence of *)
(* one-character strings.  XML written by format! templates is a sequence  *)
(* of tokens, one token per markup tag and one per character of text.      *)
(***************************************************************************)
EXTENDS Integers, Sequences, FiniteSets, TLC

VARIABLES
    markdown,   \* the Markdown text handed to an export converter
    slides,     \* markdown_to_pptx: the Vec<(String, Vec<String>)> given to build_pptx
    file,       \* the document stored at `path` (read by imports, written by exports)
    output,     \* the Markdown String returned by an import converter
    pc,         \* "start" | "written" (export returned Ok) | "done" (import returned Ok)
    calls,      \* the local variables of the conversion calls that run step by step
    recent_files \* AppState.recent_files and the mutex that guards it

vars == <<markdown, slides, file, output, pc, calls, recent_files>>

\* no call runs step by step
NoCalls == <<>>

\* AppState::new: an empty list behind an unlocked mutex
NoRecentFiles == [list |-> <<>>, locked_by |-> 0]

NoFile == [kind |-> "none"]

----------------------------------------------------------------------------
(* Rust std string operations used by the converters.                      *)

Min(a, b) == IF a < b THEN a ELSE b

Max(a, b) == IF a > b THEN a ELSE b

\* a let binding: the value v is computed once and then used by Op
Bind(v, Op(_)) == CHOOSE r \in {Op(x) : x \in {v}} : TRUE

\* char::is_whitespace, on the characters of the model
IsWhitespace(c) == c \in {" ", "\t", "\n", "\r"}

\* str::starts_with
StartsWith(s, p) == Len(s) >= Len(p) /\ SubSeq(s, 1, Len(p)) = p

\* str::trim_start_matches: strips the prefix p as often as it repeats
RECURSIVE TrimStartMatches(_, _)
TrimStartMatches(s, p) ==
    IF p # <<>> /\ StartsWith(s, p)
    THEN TrimStartMatches(SubSeq(s, Len(p) + 1, Len(s)), p)
    ELSE s

\* str::trim: strips leading and trailing whitespace
Trim(s) ==
    LET keep == {i \in 1..Len(s) : ~IsWhitespace(s[i])}
        lo == CHOOSE i \in keep : \A j \in keep : i <= j
        hi == CHOOSE i \in keep : \A j \in keep : i >= j
    IN  IF keep = {} THEN <<>> ELSE SubSeq(s, lo, hi)

\* concatenation of a sequence of strings (push_str in a loop), by halving
RECURSIVE ConcatRange(_, _, _)
ConcatRange(ss, lo, hi) ==
    IF lo > hi THEN <<>>
    ELSE IF lo = hi THEN ss[lo]
    ELSE LET mid == (lo + hi) \div 2
         IN  ConcatRange(ss, lo, mid) \o ConcatRange(ss, mid + 1, hi)

Concat(ss) == ConcatRange(ss, 1, Len(ss))

\* [T]::join(sep)
Join(ss, sep) ==
    Concat([i \in 1..Len(ss) |-> IF i = 1 THEN ss[i] ELSE sep \o ss[i]])

\* str::split(c) for a one-character (one-token) separator: the pieces between
\* the occurrences of c, always one more than there are occurrences
SplitAt(s, pos) ==
    LET n == Len(pos)
        from(k) == IF k = 1 THEN 1 ELSE pos[k - 1] + 1
        to(k) == IF k <= n THEN pos[k] - 1 ELSE Len(s)
    IN  [k \in 1..(n + 1) |-> SubSeq(s, from(k), to(k))] \o <<>>

Split(s, c) ==
    Bind(SelectSeq([i \in 1..Len(s) |-> i], LAMBDA i : s[i] = c),
         LAMBDA pos : SplitAt(s, pos))

\* str::lines: splits at "\n", drops one "\r" before it, and yields no final
\* empty line after a trailing "\n"
LinesOf(pieces) ==
    LET n == Len(pieces)
        count == IF pieces[n] = <<>> THEN n - 1 ELSE n
        strip(l, k) == IF k < n /\ l # <<>> /\ l[Len(l)] = "\r"
                       THEN SubSeq(l, 1, Len(l) - 1) ELSE l
    IN  [k \in 1..count |-> strip(pieces[k], k)] \o <<>>

Lines(s) == Bind(Split(s, "\n"), LAMBDA pieces : LinesOf(pieces))

\* str::replace(c, with) for a one-character pattern
ReplaceChar(s, c, with) ==
    Concat([i \in 1..Len(s) |-> IF s[i] = c THEN with ELSE <<s[i]>>])

\* the decimal digits of a natural number (format!("{}", n))
RECURSIVE IntToStr(_)
IntToStr(n) ==
    LET d == <<"0", "1", "2", "3", "4", "5", "6", "7", "8", "9">>[(n % 10) + 1]
    IN  IF n < 10 THEN <<d>> ELSE Append(IntToStr(n \div 10), d)

----------------------------------------------------------------------------
(* Presentation export: pptx.rs                                            *)

\* the title of the fallback slide
PresentationTitle == <<"P", "r", "e", "s", "e", "n", "t", "a", "t", "i", "o", "n">>

\* the loop body of markdown_to_pptx: one line of the Markdown
SlideLine(st, line) ==
    IF StartsWith(line, <<"#", " ">>) /\ ~StartsWith(line, <<"#", "#", " ">>)
    THEN [slides |-> IF st.current_title # <<>> \/ st.current_body # <<>>
                     THEN Append(st.slides,
                                 [title |-> st.current_title, body |-> st.current_body])
                     ELSE st.slides,
          current_title |-> TrimStartMatches(line, <<"#", " ">>),
          current_body |-> <<>>]
    ELSE IF Trim(line) # <<>>
    THEN [st EXCEPT !.current_body = Append(@, line)]
    ELSE st

RECURSIVE SlideLoop(_, _, _)
SlideLoop(st, lines, i) ==
    IF i > Len(lines) THEN st ELSE SlideLoop(SlideLine(st, lines[i]), lines, i + 1)

\* the slide list markdown_to_pptx hands to build_pptx
SplitSlides(md) ==
    LET st == SlideLoop([slides |-> <<>>, current_title |-> <<>>, current_body |-> <<>>],
                        Lines(md), 1)
        all == IF st.current_title # <<>> \/ st.current_body # <<>>
               THEN Append(st.slides,
                           [title |-> st.current_title, body |-> st.current_body])
               ELSE st.slides
    IN  IF all = <<>>
        THEN <<[title |-> PresentationTitle, body |-> Lines(md)]>>
        ELSE all

xml_escape(s) ==
    ReplaceChar(
        ReplaceChar(
            ReplaceChar(
                ReplaceChar(
                    ReplaceChar(s, "&", <<"&", "a", "m", "p", ";">>),
                    "<", <<"&", "l", "t", ";">>),
                ">", <<"&", "g", "t", ";">>),
            "\"", <<"&", "q", "u", "o", "t", ";">>),
        "'", <<"&", "a", "p", "o", "s", ";">>)

\* one <p:sp> shape of the slide template holding one paragraph with one run
ShapeXml(name, text) ==
    <<"<p:sp>", name, "<p:spPr/>", "<p:txBody>", "<a:bodyPr/>", "<a:lstStyle/>",
      "<a:p>", "<a:r>", "<a:rPr/>", "<a:t>">>
    \o text
    \o <<"</a:t>", "</a:r>", "</a:p>", "</p:txBody>", "</p:sp>">>

TitleShape == "<p:nvSpPr name=\"Title\" ph=\"title\"/>"

BodyShape == "<p:nvSpPr name=\"Body\" ph=\"1\"/>"

\* the slide part written for one (title, body_lines) pair
SlideXml(slide) ==
    LET title_escaped == xml_escape(slide.title)
        body_text == Join(slide.body, <<"\n">>)
        body_escaped == xml_escape(body_text)
    IN  <<"<p:sld>", "<p:cSld>", "<p:spTree>", "<p:nvGrpSpPr/>", "<p:grpSpPr/>">>
        \o ShapeXml(TitleShape, title_escaped)
        \o ShapeXml(BodyShape, body_escaped)
        \o <<"</p:spTree>", "</p:cSld>", "</p:sld>">>

SlidePath(i) == <<"ppt/slides/slide">> \o IntToStr(i) \o <<".xml">>

SlideRelsPath(i) == <<"ppt/slides/_rels/slide">> \o IntToStr(i) \o <<".xml.rels">>

SlideRelsXml ==
    <<"<Relationships>",
      "<Relationship Id=\"rId1\" Type=\"slideLayout\" Target=\"../slideLayouts/slideLayout1.xml\"/>",
      "</Relationships>">>

ContentTypesXml(n) ==
    <<"<Types>", "<Default Extension=\"rels\"/>", "<Default Extension=\"xml\"/>",
      "<Override PartName=\"/ppt/presentation.xml\"/>",
      "<Override PartName=\"/ppt/slideLayouts/slideLayout1.xml\"/>",
      "<Override PartName=\"/ppt/slideMasters/slideMaster1.xml\"/>">>
    \o Concat([i \in 1..n |->
                <<"<Override PartName=\"/ppt/slides/slide">> \o IntToStr(i)
                \o <<".xml\"/>">>])
    \o <<"</Types>">>

\* mutant of PresentationRelsXml: the slide relationships are numbered from rId1
PresentationRelsXml_FromOne(n) ==
    <<"<Relationships>",
      "<Relationship Id=\"rId1\" Type=\"slideMaster\" Target=\"slideMasters/slideMaster1.xml\"/>">>
    \o Concat([i \in 1..n |->
                <<"<Relationship Id=\"rId">> \o IntToStr(i)
                \o <<"\" Type=\"slide\" Target=\"slides/slide">> \o IntToStr(i)
                \o <<".xml\"/>">>])
    \o <<"</Relationships>">>

PresentationRelsXml(n) ==
    <<"<Relationships>",
      "<Relationship Id=\"rId1\" Type=\"slideMaster\" Target=\"slideMasters/slideMaster1.xml\"/>">>
    \o Concat([i \in 1..n |->
                <<"<Relationship Id=\"rId">> \o IntToStr(i + 1)
                \o <<"\" Type=\"slide\" Target=\"slides/slide">> \o IntToStr(i)
                \o <<".xml\"/>">>])
    \o <<"</Relationships>">>

PresentationXml(n) ==
    <<"<p:presentation>", "<p:sldMasterIdLst>",
      "<p:sldMasterId id=\"2147483648\" r:id=\"rId1\"/>", "</p:sldMasterIdLst>",
      "<p:sldIdLst>">>
    \o Concat([i \in 1..n |->
                <<"<p:sldId id=\"">> \o IntToStr(255 + i) \o <<"\" r:id=\"rId">>
                \o IntToStr(i + 1) \o <<"\"/>">>])
    \o <<"</p:sldIdLst>", "<p:sldSz cx=\"9144000\" cy=\"6858000\"/>",
         "<p:notesSz cx=\"6858000\" cy=\"9144000\"/>", "</p:presentation>">>

Part(name, content) == [name |-> name, content |-> content]

\* the ZIP package build_pptx writes, part by part, when no step fails
build_pptx(sl) ==
    LET n == Len(sl)
        fixed ==
          << Part(<<"[Content_Types].xml">>, ContentTypesXml(n)),
             Part(<<"_rels/.rels">>,
                  <<"<Relationships>",
                    "<Relationship Id=\"rId1\" Type=\"officeDocument\" Target=\"ppt/presentation.xml\"/>",
                    "</Relationships>">>),
             Part(<<"ppt/_rels/presentation.xml.rels">>, PresentationRelsXml(n)),
             Part(<<"ppt/presentation.xml">>, PresentationXml(n)),
             Part(<<"ppt/slideMasters/slideMaster1.xml">>,
                  <<"<p:sldMaster>", "<p:cSld/>", "<p:txStyles/>", "<p:sldLayoutIdLst>",
                    "<p:sldLayoutId id=\"2147483649\" r:id=\"rId1\"/>",
                    "</p:sldLayoutIdLst>", "</p:sldMaster>">>),
             Part(<<"ppt/slideMasters/_rels/slideMaster1.xml.rels">>,
                  <<"<Relationships>",
                    "<Relationship Id=\"rId1\" Type=\"slideLayout\" Target=\"../slideLayouts/slideLayout1.xml\"/>",
                    "</Relationships>">>),
             Part(<<"ppt/slideLayouts/slideLayout1.xml">>,
                  <<"<p:sldLayout type=\"blank\">", "<p:cSld name=\"Blank\"/>",
                    "</p:sldLayout>">>),
             Part(<<"ppt/slideLayouts/_rels/slideLayout1.xml.rels">>,
                  <<"<Relationships>",
                    "<Relationship Id=\"rId1\" Type=\"slideMaster\" Target=\"../slideMasters/slideMaster1.xml\"/>",
                    "</Relationships>">>) >>
        perSlide == [i \in 1..n |->
                       << Part(SlideRelsPath(i), SlideRelsXml),
                          Part(SlidePath(i), SlideXml(sl[i])) >>]
    IN  [kind |-> "pptx", parts |-> fixed \o Concat(perSlide)]

\* markdown_to_pptx(markdown, path) returning Ok(())
MarkdownToPptx ==
    /\ pc = "start"
    /\ file = NoFile
    /\ slides' = SplitSlides(markdown)
    /\ file' = build_pptx(SplitSlides(markdown))
    /\ pc' = "written"
    /\ UNCHANGED <<markdown, output, calls, recent_files>>



----------------------------------------------------------------------------
(* Spreadsheet import: xlsx.rs                                             *)

MAX_ROWS_PER_SHEET == 500

\* calamine::Data, the typed cell
EmptyCell == [type |-> "Empty"]

StringCell(s) == [type |-> "String", s |-> s]

IntCell(i) == [type |-> "Int", i |-> i]

BoolCell(b) == [type |-> "Bool", b |-> b]

\* a finite decimal: sign, integral part, fractional digits without trailing zeros
FloatCell(neg, whole, frac) == [type |-> "Float", neg |-> neg, whole |-> whole, frac |-> frac]

ErrorCell(name) == [type |-> "Error", name |-> name]

DateTimeCell(whole, frac) == [type |-> "DateTime", whole |-> whole, frac |-> frac]

DateTimeIsoCell(s) == [type |-> "DateTimeIso", s |-> s]

DurationIsoCell(s) == [type |-> "DurationIso", s |-> s]

\* format!("{}", i) for a signed integer
SignedToStr(i) == IF i < 0 THEN <<"-">> \o IntToStr(-i) ELSE IntToStr(i)

\* format!("{}", f) for a finite decimal f64
DecimalToStr(neg, whole, frac) ==
    (IF neg THEN <<"-">> ELSE <<>>) \o IntToStr(whole)
    \o (IF frac = <<>> THEN <<>> ELSE <<".">> \o frac)

\* mutant of cell_to_string: floats keep a decimal point, booleans are lower-case
cell_to_string_RustDisplay(cell) ==
    CASE cell.type = "Empty" -> <<>>
      [] cell.type = "Float" ->
            DecimalToStr(cell.neg, cell.whole, IF cell.frac = <<>> THEN <<"0">> ELSE cell.frac)
      [] cell.type = "Int" -> SignedToStr(cell.i)
      [] cell.type = "Bool" -> IF cell.b THEN <<"t", "r", "u", "e">>
                                         ELSE <<"f", "a", "l", "s", "e">>
      [] cell.type = "Error" -> cell.name
      [] cell.type = "DateTime" -> DecimalToStr(FALSE, cell.whole, cell.frac)
      [] OTHER -> cell.s

cell_to_string(cell) ==
    CASE cell.type = "Empty" -> <<>>
      [] cell.type = "String" -> cell.s
      [] cell.type = "Float" ->
            \* fract() == 0.0 and abs() < 1e15, that is at most 15 integral digits
            IF cell.frac = <<>> /\ Len(IntToStr(cell.whole)) <= 15
            THEN SignedToStr(IF cell.neg THEN -cell.whole ELSE cell.whole)
            ELSE DecimalToStr(cell.neg, cell.whole, cell.frac)
      [] cell.type = "Int" -> SignedToStr(cell.i)
      [] cell.type = "Bool" -> IF cell.b THEN <<"T", "R", "U", "E">>
                                         ELSE <<"F", "A", "L", "S", "E">>
      [] cell.type = "Error" -> cell.name
      [] cell.type = "DateTime" -> DecimalToStr(FALSE, cell.whole, cell.frac)
      [] cell.type = "DateTimeIso" -> cell.s
      [] cell.type = "DurationIso" -> cell.s

\* Range::get_size: (height, width) of the used range, (0, 0) when it is empty
GetSize(range) == IF range = <<>> THEN <<0, 0>> ELSE <<Len(range), Len(range[1])>>

\* "|" and then " {} |" for every cell of the row
XlsxRowLine(row) ==
    <<"|">> \o Concat([c \in 1..Len(row) |-> <<" ">> \o cell_to_string(row[c]) \o <<" ", "|">>])
    \o <<"\n">>

\* mutant of SeparatorLine: one column short
SeparatorLine_Short(col_count) ==
    <<"|">> \o Concat([c \in 2..col_count |-> <<" ", "-", "-", "-", " ", "|">>]) \o <<"\n">>

\* "|" and then " --- |" for every column
SeparatorLine(col_count) ==
    <<"|">> \o Concat([c \in 1..col_count |-> <<" ", "-", "-", "-", " ", "|">>]) \o <<"\n">>

TruncationNote(omitted) ==
    <<"\n", ">", " ", "*", "*", "N", "o", "t", "e", "*", "*", ":", " ">>
    \o IntToStr(omitted)
    \o <<" ", "r", "o", "w", "s", " ", "w", "e", "r", "e", " ", "o", "m", "i", "t", "t",
         "e", "d", " ", "(", "s", "h", "o", "w", "i", "n", "g", " ", "f", "i", "r", "s",
         "t", " ">>
    \o IntToStr(MAX_ROWS_PER_SHEET)
    \o <<" ", "d", "a", "t", "a", " ", "r", "o", "w", "s", ")", ".", "\n">>

\* mutant of RowsToRead: the header row is not allowed for
RowsToRead_NoHeader(total_rows) == Min(total_rows, MAX_ROWS_PER_SHEET)

\* total_rows.min(MAX_ROWS_PER_SHEET + 1), +1 for the header
RowsToRead(total_rows) == Min(total_rows, MAX_ROWS_PER_SHEET + 1)

\* the body of the sheet loop of xlsx_to_markdown: the output after one sheet
SheetSection(out, sheet) ==
    LET total_rows == GetSize(sheet.range)[1]
        col_count == GetSize(sheet.range)[2]
        headed == (IF out # <<>> THEN out \o <<"\n">> ELSE out)
                  \o <<"#", "#", " ">> \o sheet.name \o <<"\n", "\n">>
        rows_to_read == RowsToRead(total_rows)
        rows_iter == SubSeq(sheet.range, 1, rows_to_read)
        data_row_count == Min(Len(rows_iter) - 1, MAX_ROWS_PER_SHEET)
        table == XlsxRowLine(rows_iter[1])
                 \o SeparatorLine(col_count)
                 \o Concat([k \in 1..data_row_count |-> XlsxRowLine(rows_iter[k + 1])])
        note == IF total_rows > MAX_ROWS_PER_SHEET + 1
                THEN TruncationNote(total_rows - MAX_ROWS_PER_SHEET - 1)
                ELSE <<>>
    IN  IF col_count = 0 THEN out
        ELSE IF total_rows = 0
        THEN headed \o <<"*", "(", "e", "m", "p", "t", "y", " ", "s", "h", "e", "e", "t",
                         ")", "*", "\n">>
        ELSE IF rows_iter = <<>> THEN headed
        ELSE headed \o table \o note

RECURSIVE SheetLoop_Backwards(_, _, _)
\* mutant of SheetLoop: the sheets are visited from the last to the first
SheetLoop_Backwards(out, sheets, i) ==
    IF i > Len(sheets) THEN out
    ELSE SheetLoop_Backwards(SheetSection(out, sheets[Len(sheets) + 1 - i]), sheets, i + 1)

RECURSIVE SheetLoop(_, _, _)
SheetLoop(out, sheets, i) ==
    IF i > Len(sheets) THEN out
    ELSE SheetLoop(SheetSection(out, sheets[i]), sheets, i + 1)

xlsx_to_markdown(workbook) == SheetLoop(<<>>, workbook, 1)

\* xlsx_to_markdown(path) returning Ok(output)
XlsxToMarkdown ==
    /\ pc \in {"start", "written"}
    /\ file.kind = "xlsx"
    /\ output' = xlsx_to_markdown(file.sheets)
    /\ pc' = "done"
    /\ UNCHANGED <<markdown, slides, file, calls, recent_files>>

----------------------------------------------------------------------------
(* Word-processing import: docx.rs                                         *)

\* docx_rs document tree, as read by read_docx
NoStyle == [some |-> FALSE]

Style(val) == [some |-> TRUE, val |-> val]

TextChild(text) == [kind |-> "Text", text |-> text]

TabChild == [kind |-> "Tab"]

BreakChild == [kind |-> "Break"]

Run(children, bold, italic) ==
    [kind |-> "Run", children |-> children, bold |-> bold, italic |-> italic]

\* a paragraph child that is not a run (a bookmark, a hyperlink, ...)
OtherChild == [kind |-> "Other"]

Paragraph(style, children) ==
    [kind |-> "Paragraph", style |-> style, children |-> children]

\* rows: the cells of each row; a cell: its TableCellContent children
Table(rows) == [kind |-> "Table", rows |-> rows]

\* char::to_lowercase on the letters of the model
LowerChar(c) ==
    LET upper == <<"A", "B", "C", "D", "E", "F", "G", "H", "I", "J", "K", "L", "M",
                   "N", "O", "P", "Q", "R", "S", "T", "U", "V", "W", "X", "Y", "Z">>
        lower == <<"a", "b", "c", "d", "e", "f", "g", "h", "i", "j", "k", "l", "m",
                   "n", "o", "p", "q", "r", "s", "t", "u", "v", "w", "x", "y", "z">>
        at == {i \in 1..26 : upper[i] = c}
    IN  IF at = {} THEN c ELSE lower[CHOOSE i \in at : TRUE]

ToLowercase(s) == [i \in 1..Len(s) |-> LowerChar(s[i])]

heading_lc == <<"h", "e", "a", "d", "i", "n", "g">>

\* n times "#"
Hashes(n) == [i \in 1..n |-> "#"]

\* mutant of HeadingPrefix: the style id is matched without lower-casing it
HeadingPrefix_CaseSensitive(style) ==
    IF ~style.some THEN <<>>
    ELSE IF \E n \in 1..6 : style.val \in {heading_lc \o IntToStr(n),
                                            heading_lc \o <<" ">> \o IntToStr(n)}
    THEN Hashes(CHOOSE n \in 1..6 : style.val \in {heading_lc \o IntToStr(n),
                                                    heading_lc \o <<" ">> \o IntToStr(n)})
         \o <<" ">>
    ELSE <<>>

\* the match on the lower-cased style id in paragraph_to_markdown
HeadingPrefix(style) ==
    LET s == ToLowercase(style.val)
    IN  IF ~style.some THEN <<>>
        ELSE CASE s \in {heading_lc \o <<"1">>, heading_lc \o <<" ", "1">>} -> <<"#", " ">>
               [] s \in {heading_lc \o <<"2">>, heading_lc \o <<" ", "2">>} -> <<"#", "#", " ">>
               [] s \in {heading_lc \o <<"3">>, heading_lc \o <<" ", "3">>} ->
                    <<"#", "#", "#", " ">>
               [] s \in {heading_lc \o <<"4">>, heading_lc \o <<" ", "4">>} ->
                    <<"#", "#", "#", "#", " ">>
               [] s \in {heading_lc \o <<"5">>, heading_lc \o <<" ", "5">>} ->
                    <<"#", "#", "#", "#", "#", " ">>
               [] s \in {heading_lc \o <<"6">>, heading_lc \o <<" ", "6">>} ->
                    <<"#", "#", "#", "#", "#", "#", " ">>
               [] OTHER -> <<>>

\* mutant of run_to_markdown: a bold italic run gets the bold markers only
run_to_markdown_BoldWins(run) ==
    LET text == Concat([i \in 1..Len(run.children) |->
                          CASE run.children[i].kind = "Text" -> run.children[i].text
                            [] run.children[i].kind = "Tab" -> <<"\t">>
                            [] OTHER -> <<>>])
    IN  IF text = <<>> THEN <<>>
        ELSE CASE run.bold -> <<"*", "*">> \o text \o <<"*", "*">>
               [] ~run.bold /\ run.italic -> <<"*">> \o text \o <<"*">>
               [] OTHER -> text

run_to_markdown(run) ==
    LET text == Concat([i \in 1..Len(run.children) |->
                          CASE run.children[i].kind = "Text" -> run.children[i].text
                            [] run.children[i].kind = "Tab" -> <<"\t">>
                            [] OTHER -> <<>>])
    IN  IF text = <<>> THEN <<>>
        ELSE CASE run.bold /\ run.italic -> <<"*", "*", "*">> \o text \o <<"*", "*", "*">>
               [] run.bold /\ ~run.italic -> <<"*", "*">> \o text \o <<"*", "*">>
               [] ~run.bold /\ run.italic -> <<"*">> \o text \o <<"*">>
               [] OTHER -> text

paragraph_to_markdown(para) ==
    LET heading_prefix == HeadingPrefix(para.style)
        text == Concat([i \in 1..Len(para.children) |->
                          IF para.children[i].kind = "Run"
                          THEN run_to_markdown(para.children[i])
                          ELSE <<>>])
    IN  IF text = <<>> THEN <<>> ELSE heading_prefix \o text

\* the text of one table cell: its paragraphs, trimmed and joined by a space
RECURSIVE CellText(_, _, _)
CellText(cell_text, contents, i) ==
    IF i > Len(contents) THEN cell_text
    ELSE LET p == IF contents[i].kind = "Paragraph"
                  THEN paragraph_to_markdown(contents[i]) ELSE <<>>
         IN  CellText(IF p # <<>>
                      THEN (IF cell_text # <<>> THEN cell_text \o <<" ">> ELSE cell_text)
                           \o Trim(p)
                      ELSE cell_text,
                      contents, i + 1)

\* mutant of DocxRowLine: a short row is not padded
DocxRowLine_Unpadded(row, col_count) ==
    <<"|">>
    \o Concat([i \in 1..Len(row) |-> <<" ">> \o row[i] \o <<" ", "|">>])
    \o <<"\n">>

\* "|" and then " {} |" for each of col_count columns, a missing cell as ""
DocxRowLine(row, col_count) ==
    <<"|">>
    \o Concat([i \in 1..col_count |->
                 <<" ">> \o (IF i <= Len(row) THEN row[i] ELSE <<>>) \o <<" ", "|">>])
    \o <<"\n">>

RECURSIVE MaxLen(_, _)
MaxLen(rows, i) == IF i > Len(rows) THEN 0 ELSE Max(Len(rows[i]), MaxLen(rows, i + 1))

table_to_markdown(table) ==
    LET all == [r \in 1..Len(table.rows) |->
                  [c \in 1..Len(table.rows[r]) |-> CellText(<<>>, table.rows[r][c], 1)]]
        rows == SelectSeq(all, LAMBDA cells : cells # <<>>)
        col_count == MaxLen(rows, 1)
    IN  IF rows = <<>> THEN <<>>
        ELSE IF col_count = 0 THEN <<>>
        ELSE DocxRowLine(rows[1], col_count)
             \o SeparatorLine(col_count)
             \o Concat([k \in 1..(Len(rows) - 1) |-> DocxRowLine(rows[k + 1], col_count)])

\* mutant of DocumentChild: a paragraph that renders to nothing is ignored
DocumentChild_SkipEmpty(st, child) ==
    LET sep == IF ~st.first_block THEN <<"\n">> ELSE <<>>
        md == paragraph_to_markdown(child)
    IN  CASE child.kind = "Paragraph" ->
               IF Trim(md) = <<>>
               THEN st
               ELSE [output |-> st.output \o sep \o md \o <<"\n">>, first_block |-> FALSE]
          [] child.kind = "Table" ->
               [output |-> st.output \o sep \o table_to_markdown(child) \o <<"\n">>,
                first_block |-> FALSE]
          [] OTHER -> st

\* the body of the loop of docx_to_markdown over the document's children
DocumentChild(st, child) ==
    LET sep == IF ~st.first_block THEN <<"\n">> ELSE <<>>
        md == paragraph_to_markdown(child)
    IN  CASE child.kind = "Paragraph" ->
               IF Trim(md) = <<>>
               THEN [st EXCEPT !.output = @ \o sep]
               ELSE [output |-> st.output \o sep \o md \o <<"\n">>, first_block |-> FALSE]
          [] child.kind = "Table" ->
               [output |-> st.output \o sep \o table_to_markdown(child) \o <<"\n">>,
                first_block |-> FALSE]
          [] OTHER -> st

RECURSIVE DocumentLoop(_, _, _)
DocumentLoop(st, children, i) ==
    IF i > Len(children) THEN st
    ELSE DocumentLoop(DocumentChild(st, children[i]), children, i + 1)

docx_to_markdown(children) ==
    DocumentLoop([output |-> <<>>, first_block |-> TRUE], children, 1).output

\* docx_to_markdown(path) returning Ok(output)
DocxToMarkdown ==
    /\ pc \in {"start", "written"}
    /\ file.kind = "docx"
    /\ output' = docx_to_markdown(file.children)
    /\ pc' = "done"
    /\ UNCHANGED <<markdown, slides, file, calls, recent_files>>

----------------------------------------------------------------------------
(* Word-processing export: docx.rs                                         *)

\* pulldown_cmark events
Ev(type) == [type |-> type]

StartHeading(level) == [type |-> "StartHeading", level |-> level]

Text(text) == [type |-> "Text", text |-> text]

\* the number of "#" a line starts with
RECURSIVE LeadingHashes(_)
LeadingHashes(line) ==
    IF line # <<>> /\ line[1] = "#" THEN 1 + LeadingHashes(Tail(line)) ELSE 0

\* Parser::new_ext on a one-line text of plain characters: an ATX heading of
\* level 1..6 ("#"s, a space, the text) or else a paragraph
ParseMarkdown(md) ==
    LET k == LeadingHashes(md)
    IN  IF md = <<>> THEN <<>>
        ELSE IF k \in 1..6 /\ Len(md) > k + 1 /\ md[k + 1] = " "
        THEN <<StartHeading(k), Text(SubSeq(md, k + 2, Len(md))), Ev("EndHeading")>>
        ELSE <<Ev("StartParagraph"), Text(md), Ev("EndParagraph")>>

\* the local state of markdown_to_docx before the first event
DocxBuilder ==
    [docx |-> <<>>, pending_runs |-> <<>>, current_text |-> <<>>,
     in_bold |-> FALSE, in_italic |-> FALSE, heading_level |-> [some |-> FALSE],
     in_table |-> FALSE, table_rows |-> <<>>, current_table_row |-> <<>>,
     current_cell_text |-> <<>>]

\* mutant of FlushText: a text with the flags of the last pending run is added
\* to that run
FlushText_Merging(st) ==
    LET n == Len(st.pending_runs)
    IN  IF st.current_text = <<>> THEN st
        ELSE IF n > 0 /\ st.pending_runs[n].bold = st.in_bold
                      /\ st.pending_runs[n].italic = st.in_italic
        THEN [st EXCEPT !.pending_runs[n].text = @ \o st.current_text,
                        !.current_text = <<>>]
        ELSE [st EXCEPT !.pending_runs =
                            Append(@, [text |-> st.current_text, bold |-> st.in_bold,
                                       italic |-> st.in_italic]),
                        !.current_text = <<>>]

\* the flush of the text buffer into a pending run, when it is not empty
FlushText(st) ==
    IF st.current_text # <<>>
    THEN [st EXCEPT !.pending_runs =
                        Append(@, [text |-> st.current_text, bold |-> st.in_bold,
                                   italic |-> st.in_italic]),
                    !.current_text = <<>>]
    ELSE st

\* the macro flush_paragraph!(style)
flush_paragraph(st, style) ==
    LET flushed == FlushText(st)
        para == Paragraph(style,
                          [i \in 1..Len(flushed.pending_runs) |->
                             Run(<<TextChild(flushed.pending_runs[i].text)>>,
                                 flushed.pending_runs[i].bold,
                                 flushed.pending_runs[i].italic)])
    IN  [flushed EXCEPT !.pending_runs = <<>>, !.docx = Append(@, para)]

\* mutant of HeadingStyle: the level is counted from zero
HeadingStyle_ZeroBased(level) == <<"H", "e", "a", "d", "i", "n", "g">> \o IntToStr(level - 1)

\* format!("Heading{}", level)
HeadingStyle(level) == <<"H", "e", "a", "d", "i", "n", "g">> \o IntToStr(level)

\* mutant of DocxTable: every row keeps the cells it came with
DocxTable_Ragged(table_rows) ==
    Table([r \in 1..Len(table_rows) |->
             [i \in 1..Len(table_rows[r]) |->
                <<Paragraph(NoStyle,
                            <<Run(<<TextChild(table_rows[r][i])>>, FALSE, FALSE)>>)>>]])

\* the native table built at Event::End(TagEnd::Table)
DocxTable(table_rows) ==
    LET col_count == MaxLen(table_rows, 1)
    IN  Table([r \in 1..Len(table_rows) |->
                 [i \in 1..col_count |->
                    <<Paragraph(NoStyle,
                                <<Run(<<TextChild(IF i <= Len(table_rows[r])
                                                  THEN table_rows[r][i] ELSE <<>>)>>,
                                      FALSE, FALSE)>>)>>]])

\* the match on one event in the loop of markdown_to_docx
DocxEvent(st, event) ==
    CASE event.type = "StartHeading" ->
            [flush_paragraph(st, NoStyle) EXCEPT
                !.heading_level = [some |-> TRUE, val |-> event.level]]
      [] event.type = "EndHeading" ->
            LET level == IF st.heading_level.some THEN st.heading_level.val ELSE 1
            IN  [flush_paragraph(st, Style(HeadingStyle(level))) EXCEPT
                    !.heading_level = [some |-> FALSE]]
      [] event.type = "StartParagraph" -> st
      [] event.type = "EndParagraph" -> flush_paragraph(st, NoStyle)
      [] event.type = "StartStrong" -> [FlushText(st) EXCEPT !.in_bold = TRUE]
      [] event.type = "EndStrong" -> [FlushText(st) EXCEPT !.in_bold = FALSE]
      [] event.type = "StartEmphasis" -> [FlushText(st) EXCEPT !.in_italic = TRUE]
      [] event.type = "EndEmphasis" -> [FlushText(st) EXCEPT !.in_italic = FALSE]
      [] event.type = "StartTable" -> [st EXCEPT !.in_table = TRUE, !.table_rows = <<>>]
      [] event.type = "EndTable" ->
            [st EXCEPT !.in_table = FALSE,
                       !.docx = IF st.table_rows # <<>>
                                THEN Append(@, DocxTable(st.table_rows)) ELSE @,
                       !.table_rows = <<>>]
      [] event.type = "StartTableHead" -> [st EXCEPT !.current_table_row = <<>>]
      [] event.type = "EndTableHead" ->
            [st EXCEPT !.table_rows = Append(@, st.current_table_row),
                       !.current_table_row = <<>>]
      [] event.type = "StartTableRow" -> [st EXCEPT !.current_table_row = <<>>]
      [] event.type = "EndTableRow" ->
            [st EXCEPT !.table_rows = Append(@, st.current_table_row),
                       !.current_table_row = <<>>]
      [] event.type = "StartTableCell" -> [st EXCEPT !.current_cell_text = <<>>]
      [] event.type = "EndTableCell" ->
            [st EXCEPT !.current_table_row = Append(@, st.current_cell_text),
                       !.current_cell_text = <<>>]
      [] event.type = "Text" ->
            IF st.in_table
            THEN [st EXCEPT !.current_cell_text = @ \o event.text]
            ELSE [st EXCEPT !.current_text = @ \o event.text]
      [] event.type \in {"SoftBreak", "HardBreak"} ->
            IF ~st.in_table THEN [st EXCEPT !.current_text = Append(@, " ")] ELSE st
      [] OTHER -> st

RECURSIVE EventLoop(_, _, _)
EventLoop(st, events, i) ==
    IF i > Len(events) THEN st
    ELSE EventLoop(DocxEvent(st, events[i]), events, i + 1)

\* the children of the document markdown_to_docx builds and packs
markdown_to_docx(md) ==
    LET st == EventLoop(DocxBuilder, ParseMarkdown(md), 1)
    IN  IF st.current_text # <<>> \/ st.pending_runs # <<>>
        THEN flush_paragraph(st, NoStyle).docx
        ELSE st.docx

\* markdown_to_docx(markdown, path) returning Ok(()): the packed document is
\* what read_docx gives back
MarkdownToDocx ==
    /\ pc = "start"
    /\ file = NoFile
    /\ file' = [kind |-> "docx", children |-> markdown_to_docx(markdown)]
    /\ pc' = "written"
    /\ UNCHANGED <<markdown, slides, output, calls, recent_files>>

----------------------------------------------------------------------------
(* Spreadsheet export: xlsx.rs                                             *)

\* pulldown_cmark with ENABLE_TABLES, on texts whose blocks are separated by
\* blank lines: the cells of a table row line are the pieces between its
\* pipes, trimmed, without the piece before a leading and after a trailing pipe
RowCells(line) ==
    LET t == Trim(line)
        lo == IF t # <<>> /\ t[1] = "|" THEN 2 ELSE 1
        hi == IF Len(t) >= lo /\ t[Len(t)] = "|" THEN Len(t) - 1 ELSE Len(t)
        pieces == Split(SubSeq(t, lo, hi), "|")
    IN  [k \in 1..Len(pieces) |-> Trim(pieces[k])] \o <<>>

\* a delimiter row: every cell is dashes, with an optional colon on either side
IsDelimiterRow(line) ==
    /\ \E i \in 1..Len(line) : line[i] = "|"
    /\ \A k \in 1..Len(RowCells(line)) :
         LET cell == RowCells(line)[k]
         IN  /\ \E i \in 1..Len(cell) : cell[i] = "-"
             /\ \A i \in 1..Len(cell) :
                  cell[i] = "-" \/ (cell[i] = ":" /\ i \in {1, Len(cell)})

\* a table starts at a row line that begins a block and is followed by a
\* delimiter row of as many cells
IsTableStart(ls, i) ==
    /\ i < Len(ls)
    /\ i = 1 \/ Trim(ls[i - 1]) = <<>>
    /\ \E k \in 1..Len(ls[i]) : ls[i][k] = "|"
    /\ IsDelimiterRow(ls[i + 1])
    /\ Len(RowCells(ls[i])) = Len(RowCells(ls[i + 1]))

\* the events of one table cell: no text event for an empty cell
CellEvents(cell) ==
    <<Ev("StartTableCell")>> \o (IF cell = <<>> THEN <<>> ELSE <<Text(cell)>>)
        \o <<Ev("EndTableCell")>>

\* the events of the cells of a row, as many as the header has: missing cells
\* are empty and excess cells are ignored
RowEvents(cells, width) ==
    Concat([k \in 1..width |-> CellEvents(IF k <= Len(cells) THEN cells[k] ELSE <<>>)])

\* the events of the table of the lines ls[first..last]
TableEvents(ls, first, last) ==
    LET header == RowCells(ls[first])
        width == Len(header)
    IN  <<Ev("StartTable"), Ev("StartTableHead")>> \o RowEvents(header, width)
            \o <<Ev("EndTableHead")>>
            \o Concat([r \in 1..(last - first - 1) |->
                         <<Ev("StartTableRow")>>
                             \o RowEvents(RowCells(ls[first + 1 + r]), width)
                             \o <<Ev("EndTableRow")>>])
            \o <<Ev("EndTable")>>

\* Parser::new_ext(markdown, Options::ENABLE_TABLES): a table runs to the next
\* blank line; every other non-blank line is a block of its own
ParseLines(ls, blanks) ==
    LET n == Len(ls)
        after(i) == SelectSeq(blanks, LAMBDA b : b > i)
        last(i) == IF after(i) = <<>> THEN n ELSE after(i)[1] - 1
        before(i) == SelectSeq(blanks, LAMBDA b : b < i)
        first(i) == IF before(i) = <<>> THEN 1 ELSE before(i)[Len(before(i))] + 1
        block(i) ==
            IF Trim(ls[i]) = <<>> THEN <<>>
            ELSE IF first(i) = i /\ IsTableStart(ls, i) THEN TableEvents(ls, i, last(i))
            ELSE IF IsTableStart(ls, first(i)) THEN <<>>
            ELSE ParseMarkdown(ls[i])
    IN  Concat([i \in 1..n |-> block(i)])

ParseTables(md) ==
    Bind(Lines(md),
         LAMBDA ls :
            Bind(SelectSeq([i \in 1..Len(ls) |-> i] \o <<>>, LAMBDA i : Trim(ls[i]) = <<>>),
                 LAMBDA blanks : ParseLines(ls, blanks)))

\* the local state of extract_tables_from_markdown before the first event
TableExtractor ==
    [tables |-> <<>>, in_table |-> FALSE, in_table_head |-> FALSE,
     header_row |-> <<>>, data_rows |-> <<>>, current_row |-> <<>>,
     current_cell |-> <<>>]

\* the match on one event in the loop of extract_tables_from_markdown
TableEvent(st, event) ==
    CASE event.type = "StartTable" ->
            [st EXCEPT !.in_table = TRUE, !.header_row = <<>>, !.data_rows = <<>>]
      [] event.type = "EndTable" ->
            [st EXCEPT !.in_table = FALSE,
                       !.tables = Append(@, [header |-> st.header_row,
                                             data_rows |-> st.data_rows]),
                       !.header_row = <<>>, !.data_rows = <<>>]
      [] event.type = "StartTableHead" ->
            [st EXCEPT !.in_table_head = TRUE, !.current_row = <<>>]
      [] event.type = "EndTableHead" ->
            [st EXCEPT !.in_table_head = FALSE, !.header_row = st.current_row,
                       !.current_row = <<>>]
      [] event.type = "StartTableRow" -> [st EXCEPT !.current_row = <<>>]
      [] event.type = "EndTableRow" ->
            [st EXCEPT !.data_rows = Append(@, st.current_row), !.current_row = <<>>]
      [] event.type = "StartTableCell" -> [st EXCEPT !.current_cell = <<>>]
      [] event.type = "EndTableCell" ->
            [st EXCEPT !.current_row = Append(@, st.current_cell), !.current_cell = <<>>]
      [] event.type = "Text" /\ st.in_table ->
            [st EXCEPT !.current_cell = @ \o event.text]
      [] OTHER -> st

\* the loop of extract_tables_from_markdown over events[lo..hi] in order; the
\* first half of the events is handled before the second
RECURSIVE TableEventLoop(_, _, _, _)
TableEventLoop(st, events, lo, hi) ==
    IF lo > hi THEN st
    ELSE IF lo = hi THEN TableEvent(st, events[lo])
    ELSE Bind(TableEventLoop(st, events, lo, (lo + hi) \div 2),
              LAMBDA half : TableEventLoop(half, events, (lo + hi) \div 2 + 1, hi))

extract_tables_from_markdown(md) ==
    Bind(ParseTables(md),
         LAMBDA events : TableEventLoop(TableExtractor, events, 1, Len(events)).tables)

\* mutant of WriteString: the row and the column are exchanged
WriteString_Transposed(row, col, text) == [row |-> col, col |-> row, text |-> text]

\* sheet.write_string(row, col, text)
WriteString(row, col, text) == [row |-> row, col |-> col, text |-> text]

\* a worksheet: its name and the write_string calls made on it, in order
Worksheet(name, writes) == [name |-> name, writes |-> writes]

\* mutant of SheetName: the sheets are numbered from zero
SheetName_ZeroBased(table_idx) == <<"T", "a", "b", "l", "e">> \o IntToStr(table_idx)

\* format!("Table{}", table_idx + 1)
SheetName(table_idx) == <<"T", "a", "b", "l", "e">> \o IntToStr(table_idx + 1)

\* the else branch of markdown_to_xlsx: the worksheet of one table
TableWorksheet(table_idx, table) ==
    Worksheet(SheetName(table_idx),
              [c \in 1..Len(table.header) |-> WriteString(0, c - 1, table.header[c])]
              \o Concat([r \in 1..Len(table.data_rows) |->
                           [c \in 1..Len(table.data_rows[r]) |->
                              WriteString(r, c - 1, table.data_rows[r][c])]]))

\* mutant of PlainWorksheet: blank lines are not counted
PlainWorksheet_NoBlank(md) ==
    LET ls == SelectSeq(Lines(md), LAMBDA l : l # <<>>)
    IN  Worksheet(<<"S", "h", "e", "e", "t", "1">>,
                  [i \in 1..Len(ls) |-> WriteString(i - 1, 0, ls[i])])

\* the fallback branch of markdown_to_xlsx: every line in column A of Sheet1
PlainWorksheet(md) ==
    LET ls == Lines(md)
    IN  Worksheet(<<"S", "h", "e", "e", "t", "1">>,
                  [i \in 1..Len(ls) |-> WriteString(i - 1, 0, ls[i])])

\* the worksheets markdown_to_xlsx adds to the workbook
markdown_to_xlsx(md) ==
    Bind(extract_tables_from_markdown(md),
         LAMBDA tables :
            IF tables = <<>>
            THEN <<PlainWorksheet(md)>>
            ELSE [t \in 1..Len(tables) |-> TableWorksheet(t - 1, tables[t])])

\* the first and last row and column that hold a stored cell
BoundingBox(stored) ==
    LET rows == {stored[i].row : i \in 1..Len(stored)}
        cols == {stored[i].col : i \in 1..Len(stored)}
    IN  [top |-> CHOOSE r \in rows : \A q \in rows : r <= q,
         bottom |-> CHOOSE r \in rows : \A q \in rows : r >= q,
         left |-> CHOOSE c \in cols : \A q \in cols : c <= q,
         right |-> CHOOSE c \in cols : \A q \in cols : c >= q]

\* the cell of the saved sheet at (r, c): the string last written there
StoredCell(stored, r, c) ==
    LET hits == SelectSeq(stored, LAMBDA w : w.row = r /\ w.col = c)
    IN  IF hits = <<>> THEN EmptyCell ELSE StringCell(hits[Len(hits)].text)

\* calamine's worksheet_range: the bounding box of the stored cells, string
\* cells where one was written and empty cells elsewhere
StoredRange(stored) ==
    IF stored = <<>> THEN <<>>
    ELSE Bind(BoundingBox(stored),
              LAMBDA box :
                 [r \in 1..(box.bottom - box.top + 1) |->
                    [c \in 1..(box.right - box.left + 1) |->
                       StoredCell(stored, box.top + r - 1, box.left + c - 1)]])

\* workbook.save and worksheet_range on the saved sheet: an empty string is
\* not stored
SavedRange(writes) ==
    Bind(SelectSeq(writes, LAMBDA w : w.text # <<>>), LAMBDA stored : StoredRange(stored))

\* workbook.save(path): the file with the worksheets as written and as
\* open_workbook_auto reads them
SavedWorkbook(worksheets) ==
    [kind |-> "xlsx",
     worksheets |-> worksheets,
     sheets |-> [i \in 1..Len(worksheets) |->
                   [name |-> worksheets[i].name,
                    range |-> SavedRange(worksheets[i].writes)]]]

\* markdown_to_xlsx(markdown, path) returning Ok(()): the workbook as written
\* and as open_workbook_auto reads it
MarkdownToXlsx ==
    /\ pc = "start"
    /\ file = NoFile
    /\ file' = Bind(markdown_to_xlsx(markdown), LAMBDA worksheets : SavedWorkbook(worksheets))
    /\ pc' = "written"
    /\ UNCHANGED <<markdown, slides, output, calls, recent_files>>

----------------------------------------------------------------------------
(* Presentation import: pptx.rs                                            *)

\* str::ends_with
EndsWith(s, p) == Len(s) >= Len(p) /\ SubSeq(s, Len(s) - Len(p) + 1, Len(s)) = p

\* str::trim_end_matches: strips the suffix p as often as it repeats
RECURSIVE TrimEndMatches(_, _)
TrimEndMatches(s, p) ==
    IF p # <<>> /\ EndsWith(s, p)
    THEN TrimEndMatches(SubSeq(s, 1, Len(s) - Len(p)), p)
    ELSE s

\* str::replace(pat, with): the matches of pat from left to right, not overlapping
RECURSIVE Replace(_, _, _)
Replace(s, pat, with) ==
    IF Len(s) < Len(pat) THEN s
    ELSE IF StartsWith(s, pat)
    THEN with \o Replace(SubSeq(s, Len(pat) + 1, Len(s)), pat, with)
    ELSE <<s[1]>> \o Replace(Tail(s), pat, with)

\* str::find for a one-token pattern: the first place of it, 0 for None
Find(s, c) ==
    LET pos == SelectSeq([i \in 1..Len(s) |-> i] \o <<>>, LAMBDA i : s[i] = c)
    IN  IF pos = <<>> THEN 0 ELSE pos[1]

Digits == {"0", "1", "2", "3", "4", "5", "6", "7", "8", "9"}

RECURSIVE DigitsValue(_)
DigitsValue(ds) ==
    IF ds = <<>> THEN 0
    ELSE 10 * DigitsValue(SubSeq(ds, 1, Len(ds) - 1))
         + (CHOOSE d \in 0..9 : IntToStr(d) = <<ds[Len(ds)]>>)

\* str::parse::<usize>().unwrap_or(0): decimal digits after an optional "+"
ParseUsizeOrZero(s) ==
    LET body == IF s # <<>> /\ s[1] = "+" THEN Tail(s) ELSE s
    IN  IF body # <<>> /\ \A i \in 1..Len(body) : body[i] \in Digits
        THEN DigitsValue(body)
        ELSE 0

\* the chain of replace calls of extract_text_from_slide_xml
DecodeEntities(text) ==
    Replace(
        Replace(
            Replace(
                Replace(
                    Replace(text, <<"&", "a", "m", "p", ";">>, <<"&">>),
                    <<"&", "l", "t", ";">>, <<"<">>),
                <<"&", "g", "t", ";">>, <<">">>),
            <<"&", "q", "u", "o", "t", ";">>, <<"\"">>),
        <<"&", "a", "p", "o", "s", ";">>, <<"'">>)

\* the inner loop of extract_text_from_slide_xml: the text of one piece
\* between paragraph markers
ParaText(para) ==
    LET parts == Split(para, "<a:t>")
        piece(k) == LET end == Find(parts[k], "</a:t>")
                    IN  IF end > 0 THEN DecodeEntities(SubSeq(parts[k], 1, end - 1))
                        ELSE <<>>
    IN  Concat([k \in 1..Len(parts) |-> piece(k)])

\* the outer loop body of extract_text_from_slide_xml
ParaLine(st, para) ==
    LET trimmed == Trim(ParaText(para))
    IN  IF trimmed = <<>> THEN st
        ELSE IF st.first_para
        THEN [output |-> st.output \o <<"#", " ">> \o trimmed \o <<"\n">>,
              first_para |-> FALSE]
        ELSE [st EXCEPT !.output = @ \o <<"\n">> \o trimmed]

RECURSIVE ParaLoop(_, _, _)
ParaLoop(st, paras, i) ==
    IF i > Len(paras) THEN st
    ELSE ParaLoop(ParaLine(st, paras[i]), paras, i + 1)

extract_text_from_slide_xml(xml) ==
    ParaLoop([output |-> <<>>, first_para |-> TRUE], Split(xml, "<a:p>"), 1).output

\* the first loop body of pptx_to_markdown: one archive entry
ArchiveEntry(found, entry) ==
    IF ~StartsWith(entry.name, <<"ppt/slides/slide">>) \/ ~EndsWith(entry.name, <<".xml">>)
    THEN found
    ELSE LET slide_num ==
                 ParseUsizeOrZero(
                     TrimEndMatches(TrimStartMatches(entry.name, <<"ppt/slides/slide">>),
                                    <<".xml">>))
             text == extract_text_from_slide_xml(entry.content)
         IN  IF text # <<>>
             THEN Append(found, [num |-> slide_num, text |-> text])
             ELSE found

RECURSIVE ArchiveLoop(_, _, _)
ArchiveLoop(found, parts, i) ==
    IF i > Len(parts) THEN found
    ELSE ArchiveLoop(ArchiveEntry(found, parts[i]), parts, i + 1)

\* mutant of SortByKey: the slides stay in archive order
SortByKey_Unsorted(found) == found

\* slides.sort_by_key(|(n, _)| *n): a stable sort
SortByKey(found) ==
    LET rank(i) == Cardinality({j \in 1..Len(found) :
                                  \/ found[j].num < found[i].num
                                  \/ found[j].num = found[i].num /\ j <= i})
    IN  [r \in 1..Len(found) |->
           found[CHOOSE i \in 1..Len(found) : rank(i) = r]]

\* the second loop of pptx_to_markdown
JoinSlides(sorted) ==
    Concat([i \in 1..Len(sorted) |->
              (IF i > 1 THEN <<"\n">> ELSE <<>>) \o sorted[i].text \o <<"\n">>])

pptx_to_markdown(parts) == JoinSlides(SortByKey(ArchiveLoop(<<>>, parts, 1)))

\* pptx_to_markdown(path) returning Ok(output)
PptxToMarkdown ==
    /\ pc \in {"start", "written"}
    /\ file.kind = "pptx"
    /\ output' = pptx_to_markdown(file.parts)
    /\ pc' = "done"
    /\ UNCHANGED <<markdown, slides, file, calls, recent_files>>

----------------------------------------------------------------------------
(* The exports step by step, with the steps that can fail.                 *)

\* the calls build_pptx makes on the ZipWriter, in order: start_file and
\* write_all for every part, then finish
ZipOps(sl) ==
    Bind(build_pptx(sl).parts,
         LAMBDA parts :
            Concat([k \in 1..Len(parts) |->
                      <<[op |-> "start_file", name |-> parts[k].name],
                        [op |-> "write_all", content |-> parts[k].content]>>])
            \o <<[op |-> "finish"]>>)

\* File::create(path): the destination file exists and is empty
CreatedFile == [kind |-> "pptx", parts |-> <<>>, finished |-> FALSE]

\* the destination file after a ZipWriter call that returned Ok
ZipApply(disk, op) ==
    CASE op.op = "start_file" -> [disk EXCEPT !.parts = Append(@, Part(op.name, <<>>))]
      [] op.op = "write_all" ->
            [disk EXCEPT !.parts[Len(disk.parts)].content = @ \o op.content]
      [] op.op = "finish" -> [disk EXCEPT !.finished = TRUE]

\* mutant of AfterZipCall: the result of the call is not looked at
AfterZipCall_Unchecked(ok, op) == IF op.op = "finish" THEN "written" ELSE "building"

\* .map_err(..)? on the result of a ZipWriter call, and Ok(()) after finish
AfterZipCall(ok, op) ==
    IF ~ok THEN "failed" ELSE IF op.op = "finish" THEN "written" ELSE "building"

\* the value a call has returned at pc
ResultAt(at) ==
    CASE at = "failed" -> "ConversionError"
      [] at \in {"written", "done"} -> "Ok"
      [] OTHER -> "running"

\* a call of the function fn before its first step that can fail; step counts
\* the steps made and failed lists the steps that returned an error
NewCall(fn) == [fn |-> fn, step |-> 0, failed |-> <<>>, result |-> "running"]

\* markdown_to_pptx up to File::create in build_pptx
BuildPptxCreate ==
    /\ pc = "start"
    /\ calls = NoCalls
    /\ slides' = SplitSlides(markdown)
    /\ \E ok \in BOOLEAN :
         /\ pc' = IF ok THEN "building" ELSE "failed"
         /\ file' = IF ok THEN CreatedFile ELSE file
         /\ calls' = <<[NewCall("build_pptx") EXCEPT
                          !.failed = IF ok THEN <<>> ELSE <<0>>,
                          !.result = ResultAt(pc')]>>
    /\ UNCHANGED <<markdown, output, recent_files>>

\* the next call of build_pptx on the ZipWriter
BuildPptxStep ==
    /\ pc = "building"
    /\ calls[1].fn = "build_pptx"
    /\ \E ok \in BOOLEAN :
         LET op == ZipOps(slides)[calls[1].step + 1]
         IN  /\ pc' = AfterZipCall(ok, op)
             /\ file' = IF ok THEN ZipApply(file, op) ELSE file
             /\ calls' = <<[calls[1] EXCEPT
                              !.step = @ + 1,
                              !.failed = IF ok THEN @ ELSE Append(@, calls[1].step + 1),
                              !.result = ResultAt(pc')]>>
    /\ UNCHANGED <<markdown, slides, output, recent_files>>

\* the calls markdown_to_xlsx makes on the workbook, in order: for every
\* worksheet add_worksheet with set_name and then its write_string calls, and
\* at last save
WorkbookOps(md) ==
    Bind(markdown_to_xlsx(md),
         LAMBDA worksheets :
            Concat([k \in 1..Len(worksheets) |->
                      <<[op |-> "add_worksheet", name |-> worksheets[k].name]>>
                      \o [w \in 1..Len(worksheets[k].writes) |->
                            [op |-> "write_string", write |-> worksheets[k].writes[w]]]])
            \o <<[op |-> "save"]>>)

\* the workbook in memory after a call on it that returned Ok
WorkbookApply(workbook, op) ==
    CASE op.op = "add_worksheet" -> Append(workbook, Worksheet(op.name, <<>>))
      [] op.op = "write_string" ->
            [workbook EXCEPT ![Len(workbook)].writes = Append(@, op.write)]
      [] op.op = "save" -> workbook

\* .map_err(..)? on the result of a workbook call, and Ok(()) after save
AfterWorkbookCall(ok, op) ==
    IF ~ok THEN "failed" ELSE IF op.op = "save" THEN "written" ELSE "building"

\* what a failed save can leave at the destination path
Truncated == [kind |-> "truncated"]

\* mutant of Destination: the workbook is saved after every call on it
Destination_Streamed(disk, workbook, ok, op) ==
    IF ok THEN {SavedWorkbook(WorkbookApply(workbook, op))} ELSE {disk}

\* the destination file after a call on the workbook: only save touches it
Destination(disk, workbook, ok, op) ==
    IF op.op # "save" THEN {disk}
    ELSE IF ok THEN {SavedWorkbook(workbook)}
    ELSE {disk, Truncated}

\* markdown_to_xlsx up to Workbook::new(); before is the destination as the
\* call found it
XlsxWriteStart ==
    /\ pc = "start"
    /\ calls = NoCalls
    /\ calls' = <<[fn |-> "markdown_to_xlsx", step |-> 0, failed |-> <<>>,
                   result |-> "running", workbook |-> <<>>, before |-> file]>>
    /\ pc' = "building"
    /\ UNCHANGED <<markdown, slides, file, output, recent_files>>

\* the next call of markdown_to_xlsx on the workbook
XlsxWriteStep ==
    /\ pc = "building"
    /\ calls[1].fn = "markdown_to_xlsx"
    /\ \E ok \in BOOLEAN :
         LET op == WorkbookOps(markdown)[calls[1].step + 1]
         IN  /\ pc' = AfterWorkbookCall(ok, op)
             /\ file' \in Destination(file, calls[1].workbook, ok, op)
             /\ calls' = <<[calls[1] EXCEPT
                              !.step = @ + 1,
                              !.failed = IF ok THEN @ ELSE Append(@, calls[1].step + 1),
                              !.result = ResultAt(pc'),
                              !.workbook = IF ok THEN WorkbookApply(@, op) ELSE @]>>
    /\ UNCHANGED <<markdown, slides, output, recent_files>>

----------------------------------------------------------------------------
(* Conversion calls that run at the same time, one loop iteration a step.  *)

\* the local variables a conversion declares before its loop
FreshLocals(fn) ==
    CASE fn = "markdown_to_docx" -> DocxBuilder
      [] fn = "extract_tables_from_markdown" -> TableExtractor
      [] fn = "pptx_to_markdown" -> [slides |-> <<>>]

\* a call before its first loop iteration: items are the parser's events, or
\* the entries of the archive the call has opened
StartOfCall(fn, items) ==
    [fn |-> fn, items |-> items, next |-> 1, st |-> FreshLocals(fn),
     done |-> FALSE, returned |-> <<>>]

\* mutant of Local: the local variables are statics of the function, which
\* every call of the function reads where the first call has left them
Local_Shared(cs, c) == IF cs[1].fn = cs[c].fn THEN cs[1].st ELSE cs[c].st

\* the local variables the loop body of call c works on: its own
Local(cs, c) == cs[c].st

\* one iteration of the loop of a conversion
LoopBody(fn, st, item) ==
    CASE fn = "markdown_to_docx" -> DocxEvent(st, item)
      [] fn = "extract_tables_from_markdown" -> TableEvent(st, item)
      [] fn = "pptx_to_markdown" -> [st EXCEPT !.slides = ArchiveEntry(@, item)]

\* the code after the loop: the local variables it leaves
AfterLoop(fn, st) ==
    IF fn = "markdown_to_docx" /\ (st.current_text # <<>> \/ st.pending_runs # <<>>)
    THEN flush_paragraph(st, NoStyle)
    ELSE st

\* what the call hands over: the document it packs, the tables, the text
Returned(fn, st) ==
    CASE fn = "markdown_to_docx" -> st.docx
      [] fn = "extract_tables_from_markdown" -> st.tables
      [] fn = "pptx_to_markdown" -> JoinSlides(SortByKey(st.slides))

ConversionFns == {"markdown_to_docx", "extract_tables_from_markdown", "pptx_to_markdown"}

\* a thread runs the next loop iteration of its call
CallStep ==
    \E c \in DOMAIN calls :
        /\ calls[c].fn \in ConversionFns
        /\ ~calls[c].done
        /\ calls[c].next <= Len(calls[c].items)
        /\ calls' = [calls EXCEPT
                        ![c] = [@ EXCEPT
                                  !.st = LoopBody(calls[c].fn, Local(calls, c),
                                                  calls[c].items[calls[c].next]),
                                  !.next = @ + 1]]
        /\ UNCHANGED <<markdown, slides, file, output, pc, recent_files>>

\* a thread leaves the loop of its call and returns
CallReturn ==
    \E c \in DOMAIN calls :
        /\ calls[c].fn \in ConversionFns
        /\ ~calls[c].done
        /\ calls[c].next > Len(calls[c].items)
        /\ calls' = [calls EXCEPT
                        ![c] = Bind(AfterLoop(calls[c].fn, Local(calls, c)),
                                    LAMBDA st :
                                       [calls[c] EXCEPT
                                          !.st = st, !.done = TRUE,
                                          !.returned = Returned(calls[c].fn, st)])]
        /\ UNCHANGED <<markdown, slides, file, output, pc, recent_files>>

----------------------------------------------------------------------------
(* Input sets and specifications.                                          *)

\* bounds of the input sets
MaxMarkdownLen == 6     \* characters of a Markdown text given to markdown_to_pptx

MaxTextLen == 3         \* characters of a heading text given to markdown_to_docx

MaxRuns == 2            \* children of a paragraph

MaxRunChildren == 2     \* children of a run

MaxBlocks == 3          \* top-level children of a document

MaxTableRows == 2       \* rows of a docx table

MaxCells == 2           \* cells of a docx table row

MaxCols == 2            \* columns of a sheet

MaxSmallData == 2       \* data rows of a small sheet

MaxExtraData == 2       \* data rows of a large sheet beyond MAX_ROWS_PER_SHEET

MaxPlainLines == 3      \* lines of a Markdown text without a table

MaxPieces == 2          \* entities and other pieces of a run's text

MaxParagraphs == 3      \* paragraphs of a slide

MaxEntries == 3         \* entries of a presentation archive

MaxShortLen == 3        \* characters of a Markdown text exported step by step

MaxEvents == 7          \* inline events of a paragraph or heading

MaxCalls == 2           \* conversion calls that run at the same time

MaxThreads == 2         \* threads of the host that run commands

MaxAdds == 2            \* add_recent_file calls of a run

\* every sequence over a set up to a length
RECURSIVE SeqsUpTo(_, _)
SeqsUpTo(alphabet, n) ==
    IF n = 0 THEN {<<>>}
    ELSE LET shorter == SeqsUpTo(alphabet, n - 1)
         IN  shorter \cup {Append(s, c) : s \in shorter, c \in alphabet}

PptxAlphabet == {"#", " ", "a", "\n"}

InitPptxExport ==
    /\ markdown \in SeqsUpTo(PptxAlphabet, MaxMarkdownLen)
    /\ slides = <<>>
    /\ file = NoFile
    /\ output = <<>>
    /\ pc = "start"
    /\ calls = NoCalls
    /\ recent_files = NoRecentFiles

NextPptxExport == MarkdownToPptx

SpecPptxExport == InitPptxExport /\ [][NextPptxExport]_vars

\* style ids: both spellings of Heading0..Heading7 in three letter cases, and others
Heading_uc == <<"H", "E", "A", "D", "I", "N", "G">>

Heading_cc == <<"H", "e", "a", "d", "i", "n", "g">>

StyleIds ==
    {w \o sp \o <<d>> : w \in {heading_lc, Heading_uc, Heading_cc},
                        sp \in {<<>>, <<" ">>},
                        d \in {"0", "1", "2", "3", "4", "5", "6", "7"}}
    \cup {Heading_cc, Heading_cc \o <<" ", " ", "1">>, Heading_cc \o <<"1", "0">>,
          <<"T", "i", "t", "l", "e">>, <<"1">>, <<>>}

Styles == {NoStyle} \cup {Style(v) : v \in StyleIds}

Flags == BOOLEAN \X BOOLEAN

\* paragraphs with any style and up to MaxRuns children
SimpleChildren ==
    {Run(<<TextChild(<<"a">>)>>, FALSE, FALSE), Run(<<TextChild(<<"b">>)>>, TRUE, FALSE),
     Run(<<TextChild(<<>>)>>, FALSE, TRUE), OtherChild}

StyledParagraphs ==
    {Paragraph(st, ch) : st \in Styles, ch \in SeqsUpTo(SimpleChildren, MaxRuns)}

\* unstyled paragraphs of one run with up to MaxRunChildren children
RunChildren == {TextChild(<<"a">>), TextChild(<<"b">>), TextChild(<<>>), TabChild, BreakChild}

Runs == {Run(ch, f[1], f[2]) : ch \in SeqsUpTo(RunChildren, MaxRunChildren), f \in Flags}

RunParagraphs == {Paragraph(NoStyle, <<r>>) : r \in Runs}

\* tables of up to MaxTableRows rows of up to MaxCells cells
PlainParagraph(text) == Paragraph(NoStyle, <<Run(<<TextChild(text)>>, FALSE, FALSE)>>)

Cells == {<<>>, <<PlainParagraph(<<"a">>)>>,
          <<PlainParagraph(<<"a">>), PlainParagraph(<<"b">>)>>}

Tables == {Table(rows) : rows \in SeqsUpTo(SeqsUpTo(Cells, MaxCells), MaxTableRows)}

\* documents of up to MaxBlocks top-level children
Blocks ==
    {Paragraph(NoStyle, <<>>), PlainParagraph(<<" ">>), PlainParagraph(<<"a">>),
     Paragraph(Style(Heading_cc \o <<"1">>), <<Run(<<TextChild(<<"b">>)>>, FALSE, FALSE)>>),
     Table(<<>>), Table(<< <<<<PlainParagraph(<<"a">>)>>>> >>),
     Table(<< <<<<PlainParagraph(<<"a">>)>>, <<PlainParagraph(<<"b">>)>>>>,
              <<<<PlainParagraph(<<"a">>)>>>> >>),
     [kind |-> "SectionProperty"]}

DocxFiles ==
    {[kind |-> "docx", children |-> <<b>>] : b \in StyledParagraphs \cup RunParagraphs \cup Tables}
    \cup {[kind |-> "docx", children |-> bs] : bs \in SeqsUpTo(Blocks, MaxBlocks)}

\* sheets: a used range of `height` rows and `width` columns, filled by a pattern
CellAt(fill, r, c) ==
    CASE fill = "index" -> IF c = 1 THEN IntCell(r) ELSE StringCell(<<"a">>)
      [] fill = "sparse" -> IF (r + c) % 2 = 0 THEN StringCell(<<"a">>) ELSE EmptyCell
      [] fill = "typed" ->
            <<FloatCell(FALSE, 42, <<>>), BoolCell(TRUE), FloatCell(FALSE, 3, <<"1", "4">>),
              BoolCell(FALSE), IntCell(-7)>>[((r + c) % 5) + 1]
      [] fill = "floats" ->
            <<FloatCell(TRUE, 42, <<>>), FloatCell(FALSE, 0, <<>>), FloatCell(TRUE, 3, <<"5">>),
              FloatCell(FALSE, 100, <<>>), FloatCell(FALSE, 0, <<"0", "5">>)>>[((r + c) % 5) + 1]

Range(height, width, fill) ==
    [r \in 1..height |-> [c \in 1..width |-> CellAt(fill, r, c)]]

Fills == {"index", "sparse", "typed", "floats"}

SmallHeights == 1..(MaxSmallData + 1)

LargeHeights == (MAX_ROWS_PER_SHEET..(MAX_ROWS_PER_SHEET + 1 + MaxExtraData)) \cup {601}

Sheet(name, range) == [name |-> name, range |-> range]

SmallSheets(name) ==
    {Sheet(name, <<>>)}
    \cup {Sheet(name, Range(h, w, f)) : h \in SmallHeights, w \in 1..MaxCols, f \in Fills}

LargeSheets(name) ==
    {Sheet(name, Range(h, w, "index")) : h \in LargeHeights, w \in 1..MaxCols}

XlsxFiles ==
    {[kind |-> "xlsx", sheets |-> <<s>>] : s \in SmallSheets(<<"S">>) \cup LargeSheets(<<"S">>)}
    \cup {[kind |-> "xlsx", sheets |-> <<s, t>>] :
            s \in SmallSheets(<<"S">>) \cup {Sheet(<<"S">>, Range(MAX_ROWS_PER_SHEET + 2, 1, "index"))},
            t \in {Sheet(<<"T">>, <<>>), Sheet(<<"T">>, Range(1, 1, "index")),
                   Sheet(<<"T">>, Range(2, 2, "sparse"))}}
    \cup {[kind |-> "xlsx", sheets |-> <<s, Sheet(<<"E">>, <<>>), t>>] :
            s \in {Sheet(<<"S">>, <<>>), Sheet(<<"S">>, Range(2, 1, "index")),
                   Sheet(<<"S">>, Range(MAX_ROWS_PER_SHEET + 2, 1, "index"))},
            t \in {Sheet(<<"T">>, <<>>), Sheet(<<"T">>, Range(1, 1, "index"))}}

InitImport ==
    /\ markdown = <<>>
    /\ slides = <<>>
    /\ file \in DocxFiles \cup XlsxFiles
    /\ output = <<>>
    /\ pc = "start"
    /\ calls = NoCalls
    /\ recent_files = NoRecentFiles

NextImport == DocxToMarkdown \/ XlsxToMarkdown

SpecImport == InitImport /\ [][NextImport]_vars

\* one-line Markdown texts: 0..7 "#" and a space before a plain text
PlainTexts == SeqsUpTo({"a", "b"}, MaxTextLen) \ {<<>>}

HeadingDocs ==
    {Hashes(k) \o <<" ">> \o t : k \in 1..7, t \in PlainTexts} \cup PlainTexts

InitDocxRoundTrip ==
    /\ markdown \in HeadingDocs
    /\ slides = <<>>
    /\ file = NoFile
    /\ output = <<>>
    /\ pc = "start"
    /\ calls = NoCalls
    /\ recent_files = NoRecentFiles

NextDocxRoundTrip == MarkdownToDocx \/ DocxToMarkdown

SpecDocxRoundTrip == InitDocxRoundTrip /\ [][NextDocxRoundTrip]_vars

\* Markdown given to markdown_to_xlsx: GFM tables and plain lines
GfmRow(cells) ==
    <<"|">> \o Concat([k \in 1..Len(cells) |-> <<" ">> \o cells[k] \o <<" ", "|">>])

GfmDelimiter(width) == <<"|">> \o Concat([k \in 1..width |-> <<" ", "-", "-", "-", " ", "|">>])

GfmTable(header, rows) ==
    GfmRow(header) \o <<"\n">> \o GfmDelimiter(Len(header)) \o <<"\n">>
        \o Concat([r \in 1..Len(rows) |-> GfmRow(rows[r]) \o <<"\n">>])

Headers == SeqsUpTo({<<"a">>, <<"b">>}, MaxCols) \ {<<>>}

\* data rows: shorter and longer than a header, with an empty cell
DataRows ==
    {<< <<"a">> >>, << <<"b">>, <<"a">> >>, << <<>>, <<"b">> >>,
     << <<"a">>, <<"b">>, <<"a">> >>}

SmallTables == {GfmTable(h, rows) : h \in Headers, rows \in SeqsUpTo(DataRows, MaxSmallData)}

TinyTables == {GfmTable(h, rows) : h \in Headers, rows \in SeqsUpTo(DataRows, 1)}

SecondTables ==
    {GfmTable(<< <<"b">> >>, << << <<"a">> >> >>),
     GfmTable(<< <<"b">>, <<"a">> >>, << << <<"a">>, <<"b">>, <<"a">> >>, << <<"b">> >> >>),
     GfmTable(<< <<"a">>, <<"a">> >>, <<>>)}

\* one-column tables with about MAX_ROWS_PER_SHEET data rows, each its number
LargeTables ==
    {GfmTable(<< <<"a">> >>, [r \in 1..d |-> <<IntToStr(r)>>]) :
        d \in (MAX_ROWS_PER_SHEET - 1)..(MAX_ROWS_PER_SHEET + MaxExtraData)}

PlainLines == {<<>>, <<"a">>, <<"#", " ", "b">>, <<"|", " ", "a", " ", "|">>}

PlainDocs ==
    {Join(ls, <<"\n">>) \o nl : ls \in SeqsUpTo(PlainLines, MaxPlainLines),
                               nl \in {<<>>, <<"\n">>}}

XlsxDocs ==
    SmallTables \cup LargeTables \cup PlainDocs
    \cup {<<"a", "\n", "\n">> \o t : t \in TinyTables}
    \cup {t \o <<"\n">> \o u : t \in TinyTables, u \in SecondTables}
    \cup {t \o <<"\n", "a", "\n", "\n">> \o u \o <<"\n", "#", " ", "b", "\n">> :
            t \in TinyTables, u \in SecondTables}

InitXlsxExport ==
    /\ markdown \in XlsxDocs
    /\ slides = <<>>
    /\ file = NoFile
    /\ output = <<>>
    /\ pc = "start"
    /\ calls = NoCalls
    /\ recent_files = NoRecentFiles

NextXlsxExport == MarkdownToXlsx \/ XlsxToMarkdown

SpecXlsxExport == InitXlsxExport /\ [][NextXlsxExport]_vars

\* slide parts given to pptx_to_markdown: a paragraph is the sequence of the
\* texts of its runs
RunXml(text) == <<"<a:r>", "<a:rPr/>", "<a:t>">> \o text \o <<"</a:t>", "</a:r>">>

ParagraphXml(runs) ==
    <<"<a:p>">> \o Concat([k \in 1..Len(runs) |-> RunXml(runs[k])]) \o <<"</a:p>">>

SlideOf(paragraphs) ==
    <<"<p:sld>", "<p:cSld>", "<p:spTree>", "<p:sp>", "<p:txBody>", "<a:bodyPr/>">>
    \o Concat([k \in 1..Len(paragraphs) |-> ParagraphXml(paragraphs[k])])
    \o <<"</p:txBody>", "</p:sp>", "</p:spTree>", "</p:cSld>", "</p:sld>">>

SlideName(middle) == <<"ppt/slides/slide">> \o middle \o <<".xml">>

\* run texts made of entities and other pieces
EntityPieces ==
    {<<"&", "a", "m", "p", ";">>, <<"&", "l", "t", ";">>, <<"&", "g", "t", ";">>,
     <<"&", "q", "u", "o", "t", ";">>, <<"&", "a", "p", "o", "s", ";">>,
     <<"a">>, <<"l", "t", ";">>, <<"a", "m", "p", ";">>}

EntityTexts == {Concat(ps) : ps \in SeqsUpTo(EntityPieces, MaxPieces)}

\* paragraphs with text, with two runs, with white space only and without runs
SlideParagraphs == {<< <<"a">> >>, << <<"b">>, <<"c">> >>, << <<" ">> >>, <<>>}

SlideNumbers == {<<"1">>, <<"2">>, <<"1", "0">>, <<"0", "1">>, <<"x">>}

\* archive entries: slides with a title only and with a body under each name,
\* a slide without text, and a part that is no slide
ArchiveEntries ==
    {Part(SlideName(m), SlideOf(ps)) :
        m \in SlideNumbers,
        ps \in {<< << <<"a">> >> >>, << << <<"b">> >>, << <<"c">> >> >>}}
    \cup {Part(SlideName(<<"3">>), SlideOf(<< <<>> >>)),
          Part(<<"ppt/slides/_rels/slide">> \o <<"1">> \o <<".xml.rels">>,
               SlideOf(<< << <<"a">> >> >>))}

PptxFiles ==
    {[kind |-> "pptx", parts |-> <<Part(SlideName(<<"1">>), SlideOf(<< <<t>> >>))>>] :
        t \in EntityTexts}
    \cup {[kind |-> "pptx", parts |-> <<Part(SlideName(<<"1">>), SlideOf(ps))>>] :
            ps \in SeqsUpTo(SlideParagraphs, MaxParagraphs)}
    \cup {[kind |-> "pptx", parts |-> es] :
            es \in {x \in SeqsUpTo(ArchiveEntries, MaxEntries) :
                      \A i, j \in 1..Len(x) : x[i].name = x[j].name => i = j}}

InitPptxImport ==
    /\ markdown = <<>>
    /\ slides = <<>>
    /\ file \in PptxFiles
    /\ output = <<>>
    /\ pc = "start"
    /\ calls = NoCalls
    /\ recent_files = NoRecentFiles

NextPptxImport == PptxToMarkdown

SpecPptxImport == InitPptxImport /\ [][NextPptxImport]_vars

\* titles of characters that xml_escape replaces and of pieces of entities
RawPieces ==
    {<<"&">>, <<"<">>, <<">">>, <<"\"">>, <<"'">>, <<"a">>, <<"l", "t", ";">>,
     <<"a", "m", "p", ";">>}

RawTitles == {Concat(ps) : ps \in SeqsUpTo(RawPieces, MaxPieces)} \ {<<>>}

InitPptxRoundTrip ==
    /\ markdown \in {<<"#", " ">> \o t : t \in RawTitles}
    /\ slides = <<>>
    /\ file = NoFile
    /\ output = <<>>
    /\ pc = "start"
    /\ calls = NoCalls
    /\ recent_files = NoRecentFiles

NextPptxRoundTrip == MarkdownToPptx \/ PptxToMarkdown

SpecPptxRoundTrip == InitPptxRoundTrip /\ [][NextPptxRoundTrip]_vars

\* short texts of one slide, and a text of two slides
ShortTexts ==
    SeqsUpTo({"#", " ", "a"}, MaxShortLen) \cup {<<"a", "\n", "#", " ", "a">>}

InitPptxWrite ==
    /\ markdown \in ShortTexts
    /\ slides = <<>>
    /\ file = NoFile
    /\ output = <<>>
    /\ pc = "start"
    /\ calls = NoCalls
    /\ recent_files = NoRecentFiles

NextPptxWrite == BuildPptxCreate \/ BuildPptxStep

SpecPptxWrite == InitPptxWrite /\ [][NextPptxWrite]_vars

\* a workbook that is at the destination path before the export
OldWorkbook == SavedWorkbook(<<Worksheet(<<"O", "l", "d">>, <<WriteString(0, 0, <<"a">>)>>)>>)

\* texts with one table, with two tables and without a table
ShortDocs ==
    TinyTables \cup {t \o <<"\n">> \o t : t \in TinyTables}
    \cup {<<>>, <<"a">>, <<"a", "\n", "\n", "b">>}

InitXlsxWrite ==
    /\ markdown \in ShortDocs
    /\ slides = <<>>
    /\ file \in {NoFile, OldWorkbook}
    /\ output = <<>>
    /\ pc = "start"
    /\ calls = NoCalls
    /\ recent_files = NoRecentFiles

NextXlsxWrite == XlsxWriteStart \/ XlsxWriteStep

SpecXlsxWrite == InitXlsxWrite /\ [][NextXlsxWrite]_vars

----------------------------------------------------------------------------
(* Event streams of the parser, and conversion calls on them.              *)

\* the text of the k-th Text event of a stream
Letters == <<"a", "b", "c", "d", "e", "f", "g", "h", "i">>

Letter(k) == Letters[((k - 1) % Len(Letters)) + 1]

StartOf(span) == Ev(IF span = "Strong" THEN "StartStrong" ELSE "StartEmphasis")

EndOf(span) == Ev(IF span = "Strong" THEN "EndStrong" ELSE "EndEmphasis")

\* the inline events that may follow the events of p: a text, the start of a
\* span, or the end of the innermost open span once it holds something; the
\* open spans can still be closed within MaxEvents events
Extensions(p) ==
    {q \in
        {[events |-> Append(p.events, Text(<<Letter(p.texts + 1)>>)), open |-> p.open,
          texts |-> p.texts + 1]}
        \cup {[events |-> Append(p.events, StartOf(span)), open |-> Append(p.open, span),
               texts |-> p.texts] : span \in {"Strong", "Emphasis"}}
        \cup (IF p.open # <<>>
                 /\ p.events[Len(p.events)].type \notin {"StartStrong", "StartEmphasis"}
              THEN {[events |-> Append(p.events, EndOf(p.open[Len(p.open)])),
                     open |-> SubSeq(p.open, 1, Len(p.open) - 1), texts |-> p.texts]}
              ELSE {}) :
        Len(q.events) + Len(q.open) <= MaxEvents}

\* the streams without an open span among prefixes and their continuations by
\* up to n events
RECURSIVE InlineLevels(_, _, _)
InlineLevels(prefixes, closed, n) ==
    IF n = 0 THEN closed
    ELSE Bind(UNION {Extensions(p) : p \in prefixes},
              LAMBDA next :
                 InlineLevels(next,
                              closed \cup {p.events : p \in {q \in next : q.open = <<>>}},
                              n - 1))

\* the well-nested inline streams of 1..MaxEvents events: strong and emphasis
\* spans, also inside one another and inside themselves
InlineStreams ==
    InlineLevels({[events |-> <<>>, open |-> <<>>, texts |-> 0]}, {}, MaxEvents)

ParagraphOf(inline) == <<Ev("StartParagraph")>> \o inline \o <<Ev("EndParagraph")>>

HeadingOf(level, inline) == <<StartHeading(level)>> \o inline \o <<Ev("EndHeading")>>

\* the events of a table whose row r has counts[r] cells; row 1 is the header.
\* shape 1 leaves the first cell of the last row without a text, shape 2 has
\* the first cell of every row in strong and in two text events
TableOf(counts, shape) ==
    LET cell(r, c) ==
            <<Ev("StartTableCell")>>
                \o (IF shape = 1 /\ c = 1 /\ r = Len(counts) THEN <<>>
                    ELSE IF shape = 2 /\ c = 1
                    THEN <<Ev("StartStrong"), Text(<<Letter(r)>>), Text(<<Letter(c)>>),
                           Ev("EndStrong")>>
                    ELSE <<Text(<<Letter(r), Letter(c)>>)>>)
                \o <<Ev("EndTableCell")>>
        row(r) ==
            <<Ev(IF r = 1 THEN "StartTableHead" ELSE "StartTableRow")>>
                \o Concat([c \in 1..counts[r] |-> cell(r, c)])
                \o <<Ev(IF r = 1 THEN "EndTableHead" ELSE "EndTableRow")>>
    IN  <<Ev("StartTable")>> \o Concat([r \in 1..Len(counts) |-> row(r)])
            \o <<Ev("EndTable")>>

\* tables of a header and up to MaxTableRows body rows of 1..MaxCells cells:
\* rows of one width, as the parser evens them, and rows of different widths
TableStreams ==
    {TableOf(counts, shape) :
        counts \in SeqsUpTo(1..MaxCells, MaxTableRows + 1) \ {<<>>}, shape \in 0..2}

\* the blocks of the longer documents
DocBlocks ==
    {HeadingOf(1, <<Text(<<"a">>)>>),
     HeadingOf(2, <<Ev("StartStrong"), Text(<<"b">>), Ev("EndStrong")>>),
     ParagraphOf(<<Text(<<"e">>)>>),
     ParagraphOf(<<Text(<<"f">>), Ev("StartEmphasis"), Text(<<"g">>), Ev("EndEmphasis")>>),
     TableOf(<<1, 1>>, 0)}

DocStreams == {Concat(blocks) : blocks \in SeqsUpTo(DocBlocks, MaxBlocks)}

DocxStreams ==
    {ParagraphOf(inline) : inline \in InlineStreams}
    \cup {HeadingOf(3, inline) : inline \in {x \in InlineStreams : Len(x) <= 4}}
    \cup TableStreams \cup DocStreams
    \cup {ParseMarkdown(md) : md \in HeadingDocs}

InitDocxEvents ==
    /\ markdown = <<>>
    /\ slides = <<>>
    /\ file = NoFile
    /\ output = <<>>
    /\ pc = "start"
    /\ calls \in {<<StartOfCall("markdown_to_docx", events)>> : events \in DocxStreams}
    /\ recent_files = NoRecentFiles

NextDocxEvents == CallStep \/ CallReturn

SpecDocxEvents == InitDocxEvents /\ [][NextDocxEvents]_vars

\* an archive whose second slide comes first
TwoSlideFile ==
    [kind |-> "pptx",
     parts |-> <<Part(SlideName(<<"2">>), SlideOf(<< << <<"b">> >>, << <<"c">> >> >>)),
                 Part(SlideName(<<"1">>), SlideOf(<< << <<"a">> >> >>))>>]

\* the calls that run at the same time: exports of a paragraph with a strong
\* span, of a heading and of a table, the table extraction of the spreadsheet
\* export, and imports of the one file
ConcurrentCalls ==
    {StartOfCall("markdown_to_docx", events) :
        events \in {ParagraphOf(<<Text(<<"a">>), Ev("StartStrong"), Text(<<"b">>),
                                  Ev("EndStrong")>>),
                    HeadingOf(1, <<Text(<<"a">>)>>),
                    TableOf(<<1>>, 0)}}
    \cup {StartOfCall("extract_tables_from_markdown", TableOf(<<1>>, 0)),
          StartOfCall("pptx_to_markdown", TwoSlideFile.parts)}

InitConcurrent ==
    /\ markdown = <<>>
    /\ slides = <<>>
    /\ file = TwoSlideFile
    /\ output = <<>>
    /\ pc = "start"
    /\ calls \in SeqsUpTo(ConcurrentCalls, MaxCalls) \ {<<>>}
    /\ recent_files = NoRecentFiles

NextConcurrent == CallStep \/ CallReturn

SpecConcurrent == InitConcurrent /\ [][NextConcurrent]_vars

----------------------------------------------------------------------------
(* The recent files of the application state: main.rs                      *)

\* recent.truncate(10): the paths the list keeps
MaxRecent == 10

\* a thread of the host that runs none of the two commands
IdleThread == [fn |-> "idle", at |-> "idle", path |-> "", returned |-> <<>>]

\* mutant of Retain: the path stays where it is
Retain_Nothing(list, path) == list

\* recent.retain(|p| p != &path)
Retain(list, path) == SelectSeq(list, LAMBDA p : p # path)

\* recent.push_front(path)
PushFront(list, path) == <<path>> \o list

\* recent.truncate(len)
Truncate(list, len) == SubSeq(list, 1, Min(Len(list), len))

\* the paths of the files the host has opened before, the latest first
OpenedPaths == <<"/p1", "/p2", "/p3", "/p4", "/p5", "/p6", "/p7", "/p8", "/p9", "/p10">>

\* the lists add_recent_file has left before: none, one short of the limit, full
RecentLists == {SubSeq(OpenedPaths, 1, n) : n \in {0, MaxRecent - 1, MaxRecent}}

\* the paths the calls add: one of the list, two new ones
AddedPaths == {"/p2", "/q1", "/q2"}

\* the add_recent_file calls that have not taken the lock yet
WaitingAdds ==
    Cardinality({t \in DOMAIN calls : calls[t].fn = "add_recent_file" /\ calls[t].at = "lock"})

\* the host invokes add_recent_file(path, state) on a thread
AddRecentFileCall ==
    \E t \in DOMAIN calls, path \in AddedPaths :
        /\ calls[t].fn = "idle"
        /\ Len(recent_files.added) + WaitingAdds < MaxAdds
        /\ calls' = [calls EXCEPT ![t] = [fn |-> "add_recent_file", at |-> "lock",
                                          path |-> path, returned |-> <<>>]]
        /\ UNCHANGED <<markdown, slides, file, output, pc, recent_files>>

\* state.recent_files.lock() of add_recent_file: the thread waits while another
\* holds the mutex; added records the order in which the calls get it
AddRecentFileLock ==
    \E t \in DOMAIN calls :
        /\ calls[t].fn = "add_recent_file" /\ calls[t].at = "lock"
        /\ recent_files.locked_by = 0
        /\ recent_files' = [recent_files EXCEPT !.locked_by = t,
                                                !.added = Append(@, calls[t].path)]
        /\ calls' = [calls EXCEPT ![t].at = "retain"]
        /\ UNCHANGED <<markdown, slides, file, output, pc>>

AddRecentFileRetain ==
    \E t \in DOMAIN calls :
        /\ calls[t].fn = "add_recent_file" /\ calls[t].at = "retain"
        /\ recent_files.locked_by = t
        /\ recent_files' = [recent_files EXCEPT !.list = Retain(@, calls[t].path)]
        /\ calls' = [calls EXCEPT ![t].at = "push_front"]
        /\ UNCHANGED <<markdown, slides, file, output, pc>>

AddRecentFilePushFront ==
    \E t \in DOMAIN calls :
        /\ calls[t].fn = "add_recent_file" /\ calls[t].at = "push_front"
        /\ recent_files.locked_by = t
        /\ recent_files' = [recent_files EXCEPT !.list = PushFront(@, calls[t].path)]
        /\ calls' = [calls EXCEPT ![t].at = "truncate"]
        /\ UNCHANGED <<markdown, slides, file, output, pc>>

\* recent.truncate(10) and the return of Ok(()), which drops the guard
AddRecentFileTruncate ==
    \E t \in DOMAIN calls :
        /\ calls[t].fn = "add_recent_file" /\ calls[t].at = "truncate"
        /\ recent_files.locked_by = t
        /\ recent_files' = [recent_files EXCEPT !.list = Truncate(@, MaxRecent),
                                                !.locked_by = 0]
        /\ calls' = [calls EXCEPT ![t] = IdleThread]
        /\ UNCHANGED <<markdown, slides, file, output, pc>>

\* the host invokes get_recent_files(state) on a thread
GetRecentFilesCall ==
    \E t \in DOMAIN calls :
        /\ calls[t].fn = "idle"
        /\ calls' = [calls EXCEPT ![t] = [fn |-> "get_recent_files", at |-> "lock",
                                          path |-> "", returned |-> <<>>]]
        /\ UNCHANGED <<markdown, slides, file, output, pc, recent_files>>

\* state.recent_files.lock() of get_recent_files
GetRecentFilesLock ==
    \E t \in DOMAIN calls :
        /\ calls[t].fn = "get_recent_files" /\ calls[t].at = "lock"
        /\ recent_files.locked_by = 0
        /\ recent_files' = [recent_files EXCEPT !.locked_by = t]
        /\ calls' = [calls EXCEPT ![t].at = "collect"]
        /\ UNCHANGED <<markdown, slides, file, output, pc>>

\* Ok(recent.iter().cloned().collect()), which drops the guard
GetRecentFilesReturn ==
    \E t \in DOMAIN calls :
        /\ calls[t].fn = "get_recent_files" /\ calls[t].at = "collect"
        /\ recent_files.locked_by = t
        /\ recent_files' = [recent_files EXCEPT !.locked_by = 0]
        /\ calls' = [calls EXCEPT ![t] = [IdleThread EXCEPT
                                            !.returned = recent_files.list]]
        /\ UNCHANGED <<markdown, slides, file, output, pc>>

Reverse(s) == [i \in 1..Len(s) |-> s[Len(s) + 1 - i]]

\* initial is the list the run starts with and added the paths of the calls of
\* the run in the order they got the mutex: both are history, not program state
InitRecentFiles ==
    /\ markdown = <<>>
    /\ slides = <<>>
    /\ file = NoFile
    /\ output = <<>>
    /\ pc = "start"
    /\ calls = [t \in 1..MaxThreads |-> IdleThread]
    /\ recent_files \in {[list |-> l, locked_by |-> 0, initial |-> l, added |-> <<>>] :
                            l \in RecentLists}

NextRecentFiles ==
    \/ AddRecentFileCall
    \/ AddRecentFileLock
    \/ AddRecentFileRetain
    \/ AddRecentFilePushFront
    \/ AddRecentFileTruncate
    \/ GetRecentFilesCall
    \/ GetRecentFilesLock
    \/ GetRecentFilesReturn

SpecRecentFiles == InitRecentFiles /\ [][NextRecentFiles]_vars

----------------------------------------------------------------------------
(* Claims about the presentation export.                                   *)

\* the lines of the Markdown that start with "# "
IsTopHeading(line) == StartsWith(line, <<"#", " ">>)

NonBlank(ls) == SelectSeq(ls, LAMBDA l : Trim(l) # <<>>)

\* the positions of the top-level heading lines, in document order
HeadingPositions(ls) ==
    SelectSeq([i \in 1..Len(ls) |-> i], LAMBDA i : IsTopHeading(ls[i]))

\* the content of the part named `name` of the written package
PartContent(name) ==
    LET at == {i \in 1..Len(file.parts) : file.parts[i].name = name}
    IN  file.parts[CHOOSE i \in at : TRUE].content

\* the texts of the <a:p> paragraphs of the body shape of a slide part
BodyParagraphs(xml) ==
    LET shapes == Split(xml, BodyShape)
        paras == Split(shapes[2], "<a:p>")
        text(p) == Split(Split(p, "<a:t>")[2], "</a:t>")[1]
    IN  [k \in 1..(Len(paras) - 1) |-> text(paras[k + 1])]

\* C1: a Markdown text without any line starting with "# " is exported as
\* exactly one slide, titled "Presentation", whose body is every non-blank
\* line of the text in order.
C1_NoHeadingOneSlide ==
    (pc = "written" /\ \A i \in 1..Len(Lines(markdown)) : ~IsTopHeading(Lines(markdown)[i]))
    => /\ Len(slides) = 1
       /\ slides[1].title = PresentationTitle
       /\ slides[1].body = NonBlank(Lines(markdown))

\* C2: with k >= 1 lines starting with "# " and no non-blank line before the
\* first of them, the export yields exactly k slides in document order,
\* slide i titled with the text of the i-th heading (the "# " marker removed)
\* and holding the non-blank lines up to the next top-level heading.
C2_OneSlidePerHeading ==
    LET ls == Lines(markdown)
        hp == HeadingPositions(ls)
        k == Len(hp)
        stop(i) == IF i < k THEN hp[i + 1] - 1 ELSE Len(ls)
    IN  (pc = "written" /\ k >= 1 /\ NonBlank(SubSeq(ls, 1, hp[1] - 1)) = <<>>)
        => /\ Len(slides) = k
           /\ \A i \in 1..k :
                /\ slides[i].title = SubSeq(ls[hp[i]], 3, Len(ls[hp[i]]))
                /\ slides[i].body = NonBlank(SubSeq(ls, hp[i] + 1, stop(i)))

\* C3: in the written package the body shape of slide i holds one <a:p>
\* paragraph per body line of slide i, in the order of the lines.
C3_OneParagraphPerBodyLine ==
    pc = "written"
    => \A i \in 1..Len(slides) :
         BodyParagraphs(PartContent(SlidePath(i)))
           = [k \in 1..Len(slides[i].body) |-> xml_escape(slides[i].body[k])]

----------------------------------------------------------------------------
(* Claims about the imports.                                               *)

\* reading the Markdown an import returned
IsTableLine(line) == StartsWith(line, <<"|">>)

TableLinesOf(text) == SelectSeq(Lines(text), IsTableLine)

\* the cells of a table line "| a | b |": the text between the pipes, without
\* the one space of padding on either side
CellsOf(line) ==
    LET pieces == Split(line, "|")
    IN  [k \in 1..(Len(pieces) - 2) |-> SubSeq(pieces[k + 1], 2, Len(pieces[k + 1]) - 1)]

Columns(line) == Len(Split(line, "|")) - 2

IsSeparatorLine(line, n) == CellsOf(line) = [k \in 1..n |-> <<"-", "-", "-">>]

NotePrefix == <<">", " ", "*", "*", "N", "o", "t", "e", "*", "*", ":", " ">>

RECURSIVE DigitsToInt(_)
DigitsToInt(ds) ==
    IF ds = <<>> THEN 0
    ELSE 10 * DigitsToInt(SubSeq(ds, 1, Len(ds) - 1))
         + (CHOOSE v \in 0..9 : IntToStr(v) = <<ds[Len(ds)]>>)

\* the number a truncation note reports: the digits after its prefix
OmittedIn(note) == DigitsToInt(Split(SubSeq(note, Len(NotePrefix) + 1, Len(note)), " ")[1])

OneSheet == file.kind = "xlsx" /\ Len(file.sheets) = 1 /\ file.sheets[1].range # <<>>

OneTable == file.kind = "docx" /\ Len(file.children) = 1 /\ file.children[1].kind = "Table"

\* the rows of the one source table that hold a cell, and its widest row
SourceRows == SelectSeq(file.children[1].rows, LAMBDA r : r # <<>>)

SourceWidth ==
    LET rows == file.children[1].rows
    IN  IF rows = <<>> THEN 0
        ELSE CHOOSE w \in {Len(rows[r]) : r \in 1..Len(rows)} :
                \A r \in 1..Len(rows) : Len(rows[r]) <= w

\* C4: a sheet with a header row and D data rows is imported as min(D, 500)
\* data rows in sheet order; a note reporting D - 500 omitted rows follows
\* when D > 500 and no note when D <= 500, so emitted + omitted = D.
C4_RowCapWithNote ==
    (pc = "done" /\ OneSheet)
    => LET range == file.sheets[1].range
           D == Len(range) - 1
           tbl == TableLinesOf(output)
           data == SubSeq(tbl, 3, Len(tbl))
           notes == SelectSeq(Lines(output), LAMBDA l : StartsWith(l, NotePrefix))
           omitted == IF notes = <<>> THEN 0 ELSE OmittedIn(notes[1])
       IN  /\ Len(data) = Min(D, 500)
           /\ \A k \in 1..Len(data) :
                CellsOf(data[k]) = [c \in 1..Len(range[k + 1]) |-> cell_to_string(range[k + 1][c])]
           /\ IF D > 500 THEN Len(notes) = 1 /\ omitted = D - 500 ELSE notes = <<>>
           /\ Len(data) + omitted = D

C4_Witness ==
    /\ pc = "done" /\ OneSheet
    /\ Len(file.sheets[1].range) = 601
    /\ Len(TableLinesOf(output)) = 502
    /\ LET ls == Lines(output)
       IN  \E i \in 1..Len(ls) : StartsWith(ls[i], NotePrefix) /\ OmittedIn(ls[i]) = 100

\* C5: every imported table is rectangular: the header, the separator and
\* every data row have C columns, C the largest number of cells of a source
\* row, and a source row with fewer cells is padded with empty cells.
C5_TablesRectangular ==
    pc = "done"
    => LET ls == Lines(output)
           tbl == SelectSeq(ls, IsTableLine)
           src(i) == SourceRows[IF i = 1 THEN 1 ELSE i - 1]
       IN
       /\ \A i \in 1..(Len(ls) - 1) :
            (IsTableLine(ls[i]) /\ IsTableLine(ls[i + 1]))
            => Columns(ls[i]) = Columns(ls[i + 1])
       /\ OneSheet =>
            \A i \in 1..Len(tbl) : Columns(tbl[i]) = Len(file.sheets[1].range[1])
       /\ OneTable =>
                /\ SourceWidth > 0 => Len(tbl) = Len(SourceRows) + 1
                /\ \A i \in 1..Len(tbl) :
                     /\ Columns(tbl[i]) = SourceWidth
                     /\ i # 2 => \A c \in (Len(src(i)) + 1)..SourceWidth :
                                    CellsOf(tbl[i])[c] = <<>>

C5_Witness ==
    /\ pc = "done" /\ OneTable
    /\ Len(SourceRows) = 2
    /\ Len(SourceRows[1]) < Len(SourceRows[2])
    /\ Len(TableLinesOf(output)) = 3
    /\ Columns(TableLinesOf(output)[1]) = 2

\* the source holds a table with a header row: a docx table or a sheet with a row
OneSourceTable ==
    \/ OneTable /\ file.children[1].rows # <<>>
    \/ OneSheet

SeparatorFollowsHeader ==
    LET tbl == TableLinesOf(output)
    IN  /\ Len(tbl) >= 2
        /\ IsSeparatorLine(tbl[2], Columns(tbl[1]))

\* C6 as claimed: every source table, also one whose rows hold zero cells, is
\* imported with a separator row directly after its header row.
C6_SeparatorAlways == (pc = "done" /\ OneSourceTable) => SeparatorFollowsHeader

\* C6 as amended: a source table with at least one cell in some row (a sheet
\* with at least one column) is imported with a separator row of C entries
\* directly after its header row, also when it has no data row; a table
\* whose rows all hold zero cells emits no table line at all.
C6_SeparatorWhenCells ==
    (pc = "done" /\ OneSourceTable)
    => LET ls == Lines(output)
       IN  IF (OneTable /\ SourceWidth > 0) \/ OneSheet
           THEN /\ SeparatorFollowsHeader
                /\ \A i \in 1..(Len(ls) - 1) :
                     (IsTableLine(ls[i]) /\ (i = 1 \/ ~IsTableLine(ls[i - 1])))
                     => IsSeparatorLine(ls[i + 1], Columns(ls[i]))
           ELSE SelectSeq(ls, IsTableLine) = <<>>

C6_Witness ==
    /\ pc = "done" /\ OneTable
    /\ Len(SourceRows) = 1 /\ SourceWidth = 2
    /\ Len(TableLinesOf(output)) = 2
    /\ IsSeparatorLine(TableLinesOf(output)[2], 2)

\* what docx_to_markdown emits for a document of the one paragraph rendered md
Emitted(md) == IF Trim(md) = <<>> THEN <<>> ELSE md \o <<"\n">>

OneParagraph ==
    file.kind = "docx" /\ Len(file.children) = 1 /\ file.children[1].kind = "Paragraph"

EqualsIgnoreCase(a, b) ==
    Len(a) = Len(b) /\ \A i \in 1..Len(a) : LowerChar(a[i]) = LowerChar(b[i])

\* the heading levels whose style id, "Heading{n}" or "Heading {n}", the style equals
LevelsOf(style) ==
    {n \in 1..6 :
        /\ style.some
        /\ \/ EqualsIgnoreCase(style.val, <<"H", "e", "a", "d", "i", "n", "g">> \o IntToStr(n))
           \/ EqualsIgnoreCase(style.val,
                               <<"H", "e", "a", "d", "i", "n", "g", " ">> \o IntToStr(n))}

\* C8: a paragraph is rendered as its heading prefix (n "#" and a space for the
\* style id "Heading{n}" or "Heading {n}" in any letter case, n in 1..6, and
\* nothing for another or a missing style) followed by the renderings of its
\* runs in order; a paragraph whose runs render to nothing renders to nothing.
C8_ParagraphRendering ==
    (pc = "done" /\ OneParagraph)
    => LET para == file.children[1]
           runs == SelectSeq(para.children, LAMBDA ch : ch.kind = "Run")
           content == Concat([i \in 1..Len(runs) |-> run_to_markdown(runs[i])])
           prefix == IF LevelsOf(para.style) = {} THEN <<>>
                     ELSE [i \in 1..((CHOOSE n \in LevelsOf(para.style) : TRUE) + 1) |->
                             IF i <= (CHOOSE n \in LevelsOf(para.style) : TRUE)
                             THEN "#" ELSE " "]
       IN  output = Emitted(IF content = <<>> THEN <<>> ELSE prefix \o content)

C8_Witness ==
    /\ pc = "done" /\ OneParagraph
    /\ file.children[1].style = Style(<<"H", "E", "A", "D", "I", "N", "G", " ", "3">>)
    /\ Len(file.children[1].children) = 2
    /\ output = <<"#", "#", "#", " ", "a", "*", "*", "b", "*", "*", "\n">>

\* C9: a run with non-empty text t is rendered ***t*** when bold and italic,
\* **t** when bold only, *t* when italic only and t otherwise; t is the text
\* of its text children and a tab character per tab child, nothing else; a
\* run whose t is empty is rendered as nothing.
C9_RunRendering ==
    (pc = "done" /\ OneParagraph /\ ~file.children[1].style.some
       /\ Len(file.children[1].children) = 1 /\ file.children[1].children[1].kind = "Run")
    => LET run == file.children[1].children[1]
           kept == SelectSeq(run.children, LAMBDA ch : ch.kind \in {"Text", "Tab"})
           t == Concat([i \in 1..Len(kept) |->
                          IF kept[i].kind = "Tab" THEN <<"\t">> ELSE kept[i].text])
           stars == [i \in 1..((IF run.bold THEN 2 ELSE 0) + (IF run.italic THEN 1 ELSE 0))
                       |-> "*"]
       IN  output = Emitted(IF t = <<>> THEN <<>> ELSE stars \o t \o stars)

C9_Witness ==
    /\ pc = "done" /\ OneParagraph
    /\ file.children[1].children = <<Run(<<TextChild(<<"a">>), TabChild>>, TRUE, TRUE)>>
    /\ output = <<"*", "*", "*", "a", "\t", "*", "*", "*", "\n">>

\* a top-level child that is a block: a table, or a paragraph that renders
IsBlock(child) ==
    \/ child.kind = "Table"
    \/ child.kind = "Paragraph" /\ Trim(paragraph_to_markdown(child)) # <<>>

\* C10: the Markdown of a document does not begin with a blank line, and each
\* later paragraph or table block is preceded by a blank line.
C10_BlankLineBetweenBlocksOnly ==
    (pc = "done" /\ file.kind = "docx")
    => LET cs == file.children
           n == Len(cs)
           before == docx_to_markdown(SubSeq(cs, 1, n - 1))
       IN  /\ output = <<>> \/ output[1] # "\n"
           /\ (n >= 2 /\ IsBlock(cs[n]) /\ \E i \in 1..(n - 1) : IsBlock(cs[i]))
              => /\ StartsWith(output, before \o <<"\n">>)
                 /\ before[Len(before)] = "\n"
                 /\ Len(output) > Len(before) + 1

\* the last top-level child is a paragraph that renders to nothing or to
\* white space only
LastIsEmptyParagraph ==
    /\ file.kind = "docx" /\ file.children # <<>>
    /\ file.children[Len(file.children)].kind = "Paragraph"
    /\ ~IsBlock(file.children[Len(file.children)])

\* the Markdown of the document without its last top-level child
BeforeLast == docx_to_markdown(SubSeq(file.children, 1, Len(file.children) - 1))

\* C11 (as stated): a top-level paragraph whose rendering is empty or white
\* space adds exactly one newline and nothing else to the output, wherever it
\* stands, also before the first non-empty block.
C11_EmptyParagraphOneNewline ==
    (pc = "done" /\ LastIsEmptyParagraph) => output = BeforeLast \o <<"\n">>

\* C11 (amended): a top-level paragraph whose rendering is empty or white
\* space adds exactly one newline and nothing else to the output when a
\* table or a non-empty paragraph stands before it, and adds nothing at all
\* when none does.
C11_EmptyParagraphAfterFirstBlock ==
    (pc = "done" /\ LastIsEmptyParagraph)
    => LET cs == file.children
       IN  IF \E i \in 1..(Len(cs) - 1) : IsBlock(cs[i])
           THEN output = BeforeLast \o <<"\n">>
           ELSE output = <<>> /\ BeforeLast = <<>>

C11_Witness ==
    /\ pc = "done" /\ LastIsEmptyParagraph
    /\ Len(file.children) = 3
    /\ file.children[1] = PlainParagraph(<<"a">>)
    /\ file.children[2] = PlainParagraph(<<" ">>)
    /\ output = <<"a", "\n", "\n", "\n">>

----------------------------------------------------------------------------
(* Claims about the docx round trip.                                       *)

\* C7: exporting the one-heading document of level n in 1..6 and plain text t
\* with markdown_to_docx and importing the result with docx_to_markdown
\* gives a document whose only content line is the heading of level n with
\* text t; the written paragraph carries the style Heading{n}.
C7_HeadingRoundTrip ==
    \A n \in 1..6 : \A t \in PlainTexts :
        (pc = "done" /\ markdown = [i \in 1..n |-> "#"] \o <<" ">> \o t)
        => /\ NonBlank(Lines(output)) = <<markdown>>
           /\ LET styled == SelectSeq(file.children, LAMBDA ch : ch.style.some)
              IN  /\ Len(styled) = 1
                  /\ styled[1].style.val = <<"H", "e", "a", "d", "i", "n", "g">> \o IntToStr(n)
                  /\ \A m \in 1..6 : EqualsIgnoreCase(styled[1].style.val, HeadingStyle(m))
                                     => m = n

C7_Witness ==
    /\ pc = "done"
    /\ markdown = <<"#", "#", "#", "#", "#", "#", " ", "a", "b">>
    /\ output = <<"#", "#", "#", "#", "#", "#", " ", "a", "b", "\n">>

----------------------------------------------------------------------------
(* Claims about the spreadsheet export.                                    *)

\* the blocks of a text: its maximal runs of non-blank lines
BlocksOf(text) ==
    LET ls == Lines(text)
        n == Len(ls)
        idx == [i \in 1..n |-> i] \o <<>>
        blanks == SelectSeq(idx, LAMBDA i : Trim(ls[i]) = <<>>)
        starts == SelectSeq(idx, LAMBDA i : Trim(ls[i]) # <<>>
                                            /\ (i = 1 \/ Trim(ls[i - 1]) = <<>>))
        after(i) == SelectSeq(blanks, LAMBDA b : b > i)
        end(i) == IF after(i) = <<>> THEN n ELSE after(i)[1] - 1
    IN  [k \in 1..Len(starts) |-> SubSeq(ls, starts[k], end(starts[k]))] \o <<>>

\* a block that is a GFM table: a row line and a separator row of its width
IsGfmTable(block) ==
    /\ Len(block) >= 2
    /\ IsTableLine(block[1])
    /\ IsSeparatorLine(block[2], Columns(block[1]))

\* the GFM tables of a text in encounter order: header cells, and data rows
\* of as many cells as the header (short rows filled with empty cells, excess
\* cells ignored)
GfmTablesOf(text) ==
    LET tbls == SelectSeq(BlocksOf(text), IsGfmTable)
        fit(cells, w) == [c \in 1..w |-> IF c <= Len(cells) THEN cells[c] ELSE <<>>]
    IN  [k \in 1..Len(tbls) |->
           [header |-> CellsOf(tbls[k][1]),
            data |-> [r \in 1..(Len(tbls[k]) - 2) |->
                        fit(CellsOf(tbls[k][r + 2]), Columns(tbls[k][1]))]]] \o <<>>

\* the non-empty texts a worksheet was given, with their places
TextsOn(worksheet) ==
    {worksheet.writes[i] : i \in {j \in 1..Len(worksheet.writes) :
                                    worksheet.writes[j].text # <<>>}}

\* the non-empty cells of a table, the header in row 0 and data row r in row r
TextsOf(table) ==
    {[row |-> 0, col |-> c - 1, text |-> table.header[c]] :
        c \in {d \in 1..Len(table.header) : table.header[d] # <<>>}}
    \cup UNION {{[row |-> r, col |-> c - 1, text |-> table.data[r][c]] :
                   c \in {d \in 1..Len(table.data[r]) : table.data[r][d] # <<>>}} :
                r \in 1..Len(table.data)}

Exported == pc \in {"written", "done"} /\ file.kind = "xlsx" /\ markdown # <<>>

\* C12: for a Markdown text with at least one GFM table, markdown_to_xlsx
\* makes one worksheet per table, the n-th table on the sheet named Table{n},
\* its header cells in row 0 and its i-th data row in row i (counted from 1),
\* cells in column order, and nothing of another table.
C12_OneSheetPerTable ==
    (Exported /\ "worksheets" \in DOMAIN file /\ GfmTablesOf(markdown) # <<>>)
    => LET tables == GfmTablesOf(markdown)
       IN  /\ Len(file.worksheets) = Len(tables)
           /\ \A n \in 1..Len(tables) :
                /\ file.worksheets[n].name = <<"T", "a", "b", "l", "e">> \o IntToStr(n)
                /\ TextsOn(file.worksheets[n]) = TextsOf(tables[n])

C12_Witness ==
    /\ pc = "written" /\ file.kind = "xlsx"
    /\ Len(GfmTablesOf(markdown)) = 2
    /\ Len(GfmTablesOf(markdown)[1].data) = 1
    /\ Len(file.worksheets) = 2
    /\ file.worksheets[2].name = <<"T", "a", "b", "l", "e", "2">>
    /\ [row |-> 1, col |-> 1, text |-> <<"b">>] \in TextsOn(file.worksheets[2])

\* C13: for a Markdown text without a GFM table, markdown_to_xlsx makes the
\* one worksheet Sheet1 and writes line i of the text (counted from 0, blank
\* lines counted too) into column A of row i, and nothing else.
C13_PlainLinesOnSheet1 ==
    (Exported /\ "worksheets" \in DOMAIN file /\ GfmTablesOf(markdown) = <<>>)
    => LET ls == Lines(markdown)
       IN  /\ Len(file.worksheets) = 1
           /\ file.worksheets[1].name = <<"S", "h", "e", "e", "t", "1">>
           /\ TextsOn(file.worksheets[1])
                = {[row |-> i - 1, col |-> 0, text |-> ls[i]] :
                     i \in {j \in 1..Len(ls) : ls[j] # <<>>}}
           /\ Len(file.worksheets[1].writes) = Len(ls)

C13_Witness ==
    /\ pc = "written" /\ file.kind = "xlsx"
    /\ markdown = <<"a", "\n", "\n", "|", " ", "a", " ", "|", "\n">>
    /\ Len(file.worksheets) = 1
    /\ TextsOn(file.worksheets[1])
         = {[row |-> 0, col |-> 0, text |-> <<"a">>],
            [row |-> 2, col |-> 0, text |-> <<"|", " ", "a", " ", "|">>]}

\* the text is one GFM table, each of its header cells is non-empty text, and
\* each of its data rows holds a non-empty cell
OnePlainTable ==
    /\ Len(GfmTablesOf(markdown)) = 1
    /\ LET t == GfmTablesOf(markdown)[1]
       IN  /\ \A c \in 1..Len(t.header) : t.header[c] # <<>>
           /\ \A r \in 1..Len(t.data) : \E c \in 1..Len(t.data[r]) : t.data[r][c] # <<>>

\* the output is the section of the sheet Table1 holding a table of the header
\* cells `header` and the data rows `data`
IsTable1Section(text, header, data) ==
    LET ls == Lines(text)
        tbl == SelectSeq(ls, IsTableLine)
    IN  /\ Len(ls) >= 4
        /\ ls[1] = <<"#", "#", " ", "T", "a", "b", "l", "e", "1">>
        /\ ls[2] = <<>>
        /\ SubSeq(ls, 3, Len(tbl) + 2) = tbl
        /\ Len(tbl) = Len(data) + 2
        /\ CellsOf(tbl[1]) = header
        /\ IsSeparatorLine(tbl[2], Len(header))
        /\ \A r \in 1..Len(data) : CellsOf(tbl[r + 2]) = data[r]

----------------------------------------------------------------------------
(* Claims about the presentation import.                                   *)

\* the archive holds one part, a slide
OneSlide ==
    /\ file.kind = "pptx" /\ Len(file.parts) = 1
    /\ file.parts[1].name = <<"ppt/slides/slide", "1", ".xml">>

\* the slide holds one text run
OneRun ==
    OneSlide /\ Len(SelectSeq(file.parts[1].content, LAMBDA tok : tok = "<a:t>")) = 1

\* the text of the one run of the slide, as it stands in the XML
RunText ==
    LET xml == file.parts[1].content
    IN  SubSeq(xml, Find(xml, "<a:t>") + 1, Find(xml, "</a:t>") - 1)

\* the five entities and the characters they stand for
Entities ==
    {<< <<"&", "a", "m", "p", ";">>, "&" >>, << <<"&", "l", "t", ";">>, "<" >>,
     << <<"&", "g", "t", ";">>, ">" >>, << <<"&", "q", "u", "o", "t", ";">>, "\"" >>,
     << <<"&", "a", "p", "o", "s", ";">>, "'" >>}

\* a text with each entity occurring in it replaced by its character and all
\* the rest as it is
RECURSIVE Unescaped(_)
Unescaped(text) ==
    IF text = <<>> THEN <<>>
    ELSE IF \E e \in Entities : StartsWith(text, e[1])
    THEN LET e == CHOOSE x \in Entities : StartsWith(text, x[1])
         IN  <<e[2]>> \o Unescaped(SubSeq(text, Len(e[1]) + 1, Len(text)))
    ELSE <<text[1]>> \o Unescaped(Tail(text))

\* C15: in the Markdown of a slide every entity &amp; &lt; &gt; &quot; &apos;
\* of a text run appears as the character it stands for, and the rest of the
\* text is as in the run.
C15_EntitiesDecoded ==
    (pc = "done" /\ OneRun)
    => LET text == Trim(Unescaped(RunText))
       IN  IF text = <<>> THEN output = <<>>
           ELSE Lines(output)[1] = <<"#", " ">> \o text

\* the slide number of an entry name ppt/slides/slide{N}.xml, 0 when N is no number
IndexOf(name) ==
    LET middle == SubSeq(name, 2, Len(name) - 1)
    IN  IF middle # <<>> /\ \A i \in 1..Len(middle) : middle[i] \in Digits
        THEN DigitsToInt(middle) ELSE 0

\* the entries of the archive that are slides with text, in archive order
SlidesWithText ==
    SelectSeq(file.parts,
              LAMBDA e : /\ e.name[1] = "ppt/slides/slide" /\ e.name[Len(e.name)] = ".xml"
                         /\ extract_text_from_slide_xml(e.content) # <<>>)

\* C16: the slides are emitted in non-decreasing order of the number in their
\* entry names, whatever the order of the entries in the archive; a name
\* without a number counts as 0, and slides of equal number keep their
\* archive order.
C16_SlidesInIndexOrder ==
    (pc = "done" /\ file.kind = "pptx")
    => LET es == SlidesWithText
           n == Len(es)
           place(i) == Cardinality({j \in 1..n :
                                      \/ IndexOf(es[j].name) < IndexOf(es[i].name)
                                      \/ IndexOf(es[j].name) = IndexOf(es[i].name) /\ j <= i})
           at(r) == es[CHOOSE i \in 1..n : place(i) = r]
       IN  output = Concat([r \in 1..n |->
                              (IF r > 1 THEN <<"\n">> ELSE <<>>)
                                  \o extract_text_from_slide_xml(at(r).content) \o <<"\n">>])

C16_Witness ==
    /\ pc = "done" /\ file.kind = "pptx"
    /\ Len(file.parts) = 3
    /\ file.parts[1].name = <<"ppt/slides/slide", "1", "0", ".xml">>
    /\ file.parts[2].name = <<"ppt/slides/slide", "x", ".xml">>
    /\ file.parts[3].name = <<"ppt/slides/slide", "2", ".xml">>
    /\ output = <<"#", " ", "a", "\n", "\n", "\n", "#", " ", "a", "\n", "\n",
                  "\n", "#", " ", "b", "\n", "\n", "c", "\n">>

\* C17: in the Markdown of one slide the first non-blank paragraph is a
\* heading line "# ...", and every later non-blank paragraph is a line of its
\* own preceded by a blank line, for any number of paragraphs; blank
\* paragraphs give nothing.
C17_ParagraphsApart ==
    (pc = "done" /\ OneSlide)
    => LET pieces == Split(file.parts[1].content, "<a:p>")
           all == [k \in 1..Len(pieces) |-> Trim(ParaText(pieces[k]))] \o <<>>
           texts == SelectSeq(all, LAMBDA t : t # <<>>)
           ls == Lines(output)
           filled == {0} \cup {i \in 1..Len(ls) : ls[i] # <<>>}
           last == CHOOSE m \in filled : \A k \in filled : k <= m
       IN  SubSeq(ls, 1, last)
             = [i \in 1..(2 * Len(texts) - 1) |->
                  IF i = 1 THEN <<"#", " ">> \o texts[1]
                  ELSE IF i % 2 = 0 THEN <<>>
                  ELSE texts[(i + 1) \div 2]]

\* C18: in the Markdown of a presentation every slide after the first is
\* separated from the slide before it by exactly one blank line, also after a
\* slide that has a title only, and a slide without text gives nothing.
C18_OneBlankLineBetweenSlides ==
    (pc = "done" /\ file.kind = "pptx")
    => LET ls == Lines(output)
           headings == SelectSeq([i \in 1..Len(ls) |-> i] \o <<>>,
                                 LAMBDA i : StartsWith(ls[i], <<"#", " ">>))
       IN  /\ Len(headings) = Len(SlidesWithText)
           /\ output # <<>> => headings[1] = 1
           /\ \A k \in 2..Len(headings) :
                LET i == headings[k]
                IN  ls[i - 1] = <<>> /\ ls[i - 2] # <<>>

----------------------------------------------------------------------------
(* Claims about the sheets and the cells of the spreadsheet import.        *)

\* the sheets of the workbook that have columns, in file order
SheetsWithColumns ==
    SelectSeq(file.sheets, LAMBDA s : s.range # <<>> /\ Len(s.range[1]) > 0)

\* C19: the Markdown of a workbook has one section for every sheet that has
\* columns, in file order, and nothing for a sheet without columns; a section
\* starts with the line "## <sheet name>" and a blank line, and every section
\* after the first is preceded by exactly one blank line, also across a
\* skipped sheet and after a truncation note.
C19_SheetSections ==
    (pc = "done" /\ file.kind = "xlsx")
    => LET ls == Lines(output)
           emitted == SheetsWithColumns
           headings == SelectSeq([i \in 1..Len(ls) |-> i] \o <<>>,
                                 LAMBDA i : StartsWith(ls[i], <<"#", "#", " ">>))
       IN  /\ Len(headings) = Len(emitted)
           /\ emitted = <<>> => output = <<>>
           /\ emitted # <<>> => headings[1] = 1
           /\ \A k \in 1..Len(headings) :
                LET i == headings[k]
                IN  /\ ls[i] = <<"#", "#", " ">> \o emitted[k].name
                    /\ ls[i + 1] = <<>>
                    /\ k > 1 => ls[i - 1] = <<>> /\ ls[i - 2] # <<>>

\* a truncated sheet, a sheet without columns and a sheet of one cell: the
\* second section follows the note of the first after one blank line
C19_Witness ==
    /\ pc = "done" /\ file.kind = "xlsx"
    /\ Len(file.sheets) = 3
    /\ Len(file.sheets[1].range) = MAX_ROWS_PER_SHEET + 2
    /\ file.sheets[2].range = <<>>
    /\ file.sheets[3].range # <<>>
    /\ LET ls == Lines(output)
           n == Len(ls)
       IN  /\ n = MAX_ROWS_PER_SHEET + 11
           /\ ls[1] = <<"#", "#", " ", "S">>
           /\ StartsWith(ls[n - 5], <<">", " ", "*", "*", "N", "o", "t", "e">>)
           /\ ls[n - 4] = <<>>
           /\ ls[n - 3] = <<"#", "#", " ", "T">>
           /\ ls[n - 2] = <<>>

\* the text of a cell: a float without fraction as its integer digits, another
\* float as its decimal digits, a boolean in upper case, an empty cell as
\* nothing and a string as it is
Printed(cell) ==
    CASE cell.type = "Float" ->
            (IF cell.neg THEN <<"-">> ELSE <<>>) \o IntToStr(cell.whole)
            \o (IF cell.frac = <<>> THEN <<>> ELSE <<".">> \o cell.frac)
      [] cell.type = "Bool" -> IF cell.b THEN <<"T", "R", "U", "E">>
                                         ELSE <<"F", "A", "L", "S", "E">>
      [] cell.type = "Empty" -> <<>>
      [] cell.type = "String" -> cell.s

\* the cells of the first row of the first sheet, as printed between the bars
\* of the header line
HeaderPieces == Split(Lines(output)[3], "|")

----------------------------------------------------------------------------
(* Claims about the package of the presentation export.                    *)

\* how often the tokens sub occur in a row in xml
Occurrences(xml, sub) ==
    Cardinality({k \in 1..(Len(xml) - Len(sub) + 1) : SubSeq(xml, k, k + Len(sub) - 1) = sub})

\* the parts of the written package that have the name
PartsNamed(name) == SelectSeq(file.parts, LAMBDA part : part.name = name)

\* C21: the package written for N slides has, for every i in 1..N, exactly one
\* part ppt/slides/slide{i}.xml and one relationship part of it, one
\* content-type override for it, one presentation relationship rId{i+1} to it
\* and one slide-list entry with id 255+i and rId{i+1}; there are no other
\* slides, overrides, relationships or entries, and no slide has rId1.
C21_PackageConsistent ==
    (pc = "written" /\ file.kind = "pptx")
    => LET n == Len(slides)
           types == PartsNamed(<<"[Content_Types].xml">>)[1].content
           rels == PartsNamed(<<"ppt/_rels/presentation.xml.rels">>)[1].content
           pres == PartsNamed(<<"ppt/presentation.xml">>)[1].content
       IN  /\ n >= 1
           /\ \A i \in 1..n :
                /\ Len(PartsNamed(<<"ppt/slides/slide">> \o IntToStr(i) \o <<".xml">>)) = 1
                /\ Len(PartsNamed(<<"ppt/slides/_rels/slide">> \o IntToStr(i)
                                  \o <<".xml.rels">>)) = 1
                /\ Occurrences(types, <<"<Override PartName=\"/ppt/slides/slide">>
                                        \o IntToStr(i) \o <<".xml\"/>">>) = 1
                /\ Occurrences(rels, <<"<Relationship Id=\"rId">> \o IntToStr(i + 1)
                                       \o <<"\" Type=\"slide\" Target=\"slides/slide">>
                                       \o IntToStr(i) \o <<".xml\"/>">>) = 1
                /\ Occurrences(pres, <<"<p:sldId id=\"">> \o IntToStr(255 + i)
                                       \o <<"\" r:id=\"rId">> \o IntToStr(i + 1)
                                       \o <<"\"/>">>) = 1
           /\ Len(SelectSeq(file.parts, LAMBDA part : part.name[1] = "ppt/slides/slide")) = n
           /\ Len(SelectSeq(file.parts,
                            LAMBDA part : part.name[1] = "ppt/slides/_rels/slide")) = n
           /\ Occurrences(types, <<"<Override PartName=\"/ppt/slides/slide">>) = n
           /\ Occurrences(rels, <<"\" Type=\"slide\" Target=\"slides/slide">>) = n
           /\ Occurrences(pres, <<"<p:sldId id=\"">>) = n
           /\ Occurrences(rels, <<"<Relationship Id=\"rId", "1",
                                  "\" Type=\"slide\" Target=\"slides/slide">>) = 0

\* a package of two slides
C21_Witness ==
    /\ pc = "written" /\ file.kind = "pptx"
    /\ Len(slides) = 2
    /\ Len(PartsNamed(<<"ppt/slides/slide", "2", ".xml">>)) = 1
    /\ Occurrences(PartsNamed(<<"ppt/presentation.xml">>)[1].content,
                   <<"<p:sldId id=\"", "2", "5", "7", "\" r:id=\"rId", "3", "\"/>">>) = 1

----------------------------------------------------------------------------
(* Claims about the presentation round trip.                               *)

\* C27: the entity decoding of the import applied to xml_escape(s) gives s, so
\* a title written by the export is read back by the import as it was.
C27_EscapeDecodeInverse ==
    (pc = "done" /\ Len(slides) = 1)
    => /\ DecodeEntities(xml_escape(slides[1].title)) = slides[1].title
       /\ Lines(output)[1] = <<"#", " ">> \o slides[1].title

----------------------------------------------------------------------------
(* Claims about failing steps of the exports.                              *)

\* the destination file after the first k ZipWriter calls of ops returned Ok
RECURSIVE ZipFold(_, _)
ZipFold(ops, k) == IF k = 0 THEN CreatedFile ELSE ZipApply(ZipFold(ops, k - 1), ops[k])

C23_NothingPersistedBeforeSave ==
    (calls # NoCalls /\ calls[1].fn = "markdown_to_xlsx")
    => LET c == calls[1]
           ops == WorkbookOps(markdown)
       IN  /\ pc = "building" => file = c.before
           /\ (pc = "failed") = (c.failed # <<>>)
           /\ pc = "failed"
                => /\ c.result = "ConversionError" /\ c.step = c.failed[1]
                   /\ ops[c.step].op # "save" => file = c.before
           /\ pc = "written"
                => /\ c.result = "Ok" /\ c.failed = <<>>
                   /\ file = SavedWorkbook(markdown_to_xlsx(markdown))

\* a cell write fails after a sheet was added and a cell written: the old
\* file is still there
C23_Witness ==
    /\ pc = "failed" /\ calls[1].fn = "markdown_to_xlsx"
    /\ calls[1].failed = <<3>>
    /\ WorkbookOps(markdown)[3].op = "write_string"
    /\ Len(calls[1].workbook) = 1 /\ Len(calls[1].workbook[1].writes) = 1
    /\ calls[1].before = OldWorkbook /\ file = OldWorkbook

----------------------------------------------------------------------------
(* Claims about the runs, the paragraphs and the tables of the docx export. *)

\* the call of markdown_to_docx the claims below are about
DocxCall == calls[1]

IsDocxCall == Len(calls) = 1 /\ calls[1].fn = "markdown_to_docx"

HasTable(events) == \E i \in 1..Len(events) : events[i].type = "StartTable"

\* the runs of the paragraphs of a document, in order
AllRuns(docx) ==
    Concat([k \in 1..Len(docx) |->
              IF docx[k].kind = "Paragraph" THEN docx[k].children ELSE <<>>])

\* the texts of the Text events from event i on, up to the next other event
RECURSIVE TextFrom(_, _)
TextFrom(events, i) ==
    IF i > Len(events) \/ events[i].type # "Text" THEN <<>>
    ELSE events[i].text \o TextFrom(events, i + 1)

\* whether the last event of the two types before event i is the start
LastIsStart(events, i, start, end) ==
    LET marks == {j \in 1..(i - 1) : events[j].type \in {start, end}}
    IN  /\ marks # {}
        /\ events[CHOOSE j \in marks : \A k \in marks : k <= j].type = start

\* one run for every stretch of text between two other events, with the flags
\* the strong and emphasis events before it have left
RunsAsReceived(events) ==
    LET starts == SelectSeq([i \in 1..Len(events) |-> i],
                            LAMBDA i : /\ events[i].type = "Text"
                                       /\ (i = 1 \/ events[i - 1].type # "Text"))
    IN  [k \in 1..Len(starts) |->
           Run(<<TextChild(TextFrom(events, starts[k]))>>,
               LastIsStart(events, starts[k], "StartStrong", "EndStrong"),
               LastIsStart(events, starts[k], "StartEmphasis", "EndEmphasis"))]

\* the returned document holds the runs as their text was received
ReturnedRunsAsReceived ==
    (IsDocxCall /\ DocxCall.done /\ ~HasTable(DocxCall.items))
        => AllRuns(DocxCall.returned) = RunsAsReceived(DocxCall.items)

\* a strong or emphasis event first moves a text buffer that is not empty into
\* a new pending run with the flags before the event, then changes its own flag
SpanEventStep ==
    LET st == DocxCall.st
        after == calls'[1].st
        type == DocxCall.items[DocxCall.next].type
    IN  (/\ IsDocxCall
         /\ ~DocxCall.done
         /\ DocxCall.next <= Len(DocxCall.items)
         /\ type \in {"StartStrong", "EndStrong", "StartEmphasis", "EndEmphasis"})
        => /\ after.pending_runs =
                  IF st.current_text # <<>>
                  THEN Append(st.pending_runs,
                              [text |-> st.current_text, bold |-> st.in_bold,
                               italic |-> st.in_italic])
                  ELSE st.pending_runs
           /\ after.current_text = <<>>
           /\ after.in_bold = (CASE type = "StartStrong" -> TRUE
                                 [] type = "EndStrong" -> FALSE
                                 [] OTHER -> st.in_bold)
           /\ after.in_italic = (CASE type = "StartEmphasis" -> TRUE
                                   [] type = "EndEmphasis" -> FALSE
                                   [] OTHER -> st.in_italic)
           /\ after.docx = st.docx

\* C25: in markdown_to_docx every strong or emphasis start or end event first
\* moves a non-empty text buffer into a new pending run that carries the bold
\* and italic flags in force before the event and then sets or clears only its
\* own flag, so every run of a paragraph carries the flags in force when its
\* text was received, and runs with identical flags are not merged
C25_RunsCarryFlagsInForce == [][SpanEventStep /\ ReturnedRunsAsReceived']_vars

\* a returned paragraph with two neighbouring bold runs, the first of them
\* flushed by a strong event
C25_Witness ==
    /\ IsDocxCall
    /\ DocxCall.done
    /\ ~HasTable(DocxCall.items)
    /\ \E k \in 1..Len(DocxCall.returned) :
         LET runs == DocxCall.returned[k].children
         IN  \E r \in 1..(Len(runs) - 1) :
                /\ runs[r].bold /\ runs[r + 1].bold
                /\ runs[r].italic = runs[r + 1].italic

\* the indices of the events of some types between two indices, in order
IndicesOf(events, types, lo, hi) ==
    Bind(<<lo, hi>>,
         LAMBDA b : SelectSeq([i \in 1..Len(events) |-> i],
                              LAMBDA i : b[1] < i /\ i < b[2] /\ events[i].type \in types))

\* the index of the last event of some types before index i
LastBefore(events, types, i) ==
    Bind(IndicesOf(events, types, 0, i), LAMBDA found : found[Len(found)])

\* the text received in the cell that ends at event e
CellTextOf(events, e) ==
    Bind(IndicesOf(events, {"Text"}, LastBefore(events, {"StartTableCell"}, e), e),
         LAMBDA texts : Concat([k \in 1..Len(texts) |-> events[texts[k]].text]))

\* the cells of the row that ends at event e
RowCellsOf(events, e) ==
    Bind(IndicesOf(events, {"EndTableCell"},
                   LastBefore(events, {"StartTableHead", "StartTableRow"}, e), e),
         LAMBDA ends : [k \in 1..Len(ends) |-> CellTextOf(events, ends[k])])

\* the rows of the table that ends at event e: the header, then the body rows
RowsOf(events, e) ==
    Bind(LastBefore(events, {"StartTable"}, e),
         LAMBDA s :
            Bind(IndicesOf(events, {"EndTableHead"}, s, e)
                     \o IndicesOf(events, {"EndTableRow"}, s, e),
                 LAMBDA ends : [k \in 1..Len(ends) |-> RowCellsOf(events, ends[k])]))

\* a native table of rows of C cells, C the largest cell count of a row, every
\* cell one paragraph with one unstyled run of its text
PaddedTable(rows) ==
    Bind(CHOOSE n \in 0..(MaxCells + MaxEvents) :
            /\ \A r \in 1..Len(rows) : Len(rows[r]) <= n
            /\ \E r \in 1..Len(rows) : Len(rows[r]) = n,
         LAMBDA C :
            Table([r \in 1..Len(rows) |->
                     [c \in 1..C |->
                        <<Paragraph(NoStyle,
                                    <<Run(<<TextChild(IF c <= Len(rows[r]) THEN rows[r][c]
                                                      ELSE <<>>)>>, FALSE, FALSE)>>)>>]]))

\* the tables of the events, one for every table end
TablesOf(events) ==
    Bind(IndicesOf(events, {"EndTable"}, 0, Len(events) + 1),
         LAMBDA ends :
            [k \in 1..Len(ends) |->
               Bind(RowsOf(events, ends[k]), LAMBDA rows : PaddedTable(rows))])

\* the returned document holds the tables of the events and no other
ReturnedTables ==
    (IsDocxCall /\ DocxCall.done)
        => SelectSeq(DocxCall.returned, LAMBDA child : child.kind = "Table")
              = Bind(DocxCall.items, LAMBDA events : TablesOf(events))

\* inside a table the document grows at the table end only, by one table, and
\* no event of the table changes the text buffer or the pending runs
TableEventStep ==
    LET st == DocxCall.st
        after == calls'[1].st
        type == DocxCall.items[DocxCall.next].type
    IN  (/\ IsDocxCall
         /\ ~DocxCall.done
         /\ DocxCall.next <= Len(DocxCall.items)
         /\ st.in_table)
        => /\ after.current_text = st.current_text
           /\ after.pending_runs = st.pending_runs
           /\ IF type = "EndTable"
              THEN /\ Len(after.docx) = Len(st.docx) + 1
                   /\ after.docx[Len(after.docx)].kind = "Table"
                   /\ SubSeq(after.docx, 1, Len(st.docx)) = st.docx
              ELSE after.docx = st.docx

\* C26: in markdown_to_docx every table with at least one row becomes exactly
\* one native table, added at the table-end event: the header cells are its
\* first row, the body rows follow in order, every row has C cells, C the
\* largest cell count of a row of the table (shorter rows are padded with empty
\* cells), every cell is a single unstyled text run, and text inside the table
\* never enters the paragraph text buffer
C26_OneNativeTable == [][TableEventStep /\ ReturnedTables']_vars

\* a returned document with a table one of whose rows came with fewer cells
\* than another
C26_Witness ==
    /\ IsDocxCall
    /\ DocxCall.done
    /\ \E k \in 1..Len(DocxCall.returned) : DocxCall.returned[k].kind = "Table"
    /\ \E e \in 1..Len(DocxCall.items) :
         /\ DocxCall.items[e].type = "EndTable"
         /\ \E r1, r2 \in 1..Len(RowsOf(DocxCall.items, e)) :
               Len(RowsOf(DocxCall.items, e)[r1]) < Len(RowsOf(DocxCall.items, e)[r2])

\* whether event i lies inside at least one span of the two event types
InsideSpan(events, i, start, end) ==
    Cardinality({j \in 1..(i - 1) : events[j].type = start})
        > Cardinality({j \in 1..(i - 1) : events[j].type = end})

\* one run for every stretch of text between two other events: bold inside a
\* strong span, italic inside an emphasis span
RunsBySpans(events) ==
    Bind(SelectSeq([i \in 1..Len(events) |-> i],
                   LAMBDA i : /\ events[i].type = "Text"
                              /\ (i = 1 \/ events[i - 1].type # "Text")),
         LAMBDA starts :
            [k \in 1..Len(starts) |->
               Run(<<TextChild(TextFrom(events, starts[k]))>>,
                   InsideSpan(events, starts[k], "StartStrong", "EndStrong"),
                   InsideSpan(events, starts[k], "StartEmphasis", "EndEmphasis"))])

\* C28: in markdown_to_docx a text outside a table is exported in a bold run
\* exactly if it lies inside at least one strong span and in an italic run
\* exactly if it lies inside at least one emphasis span, for every well-nested
\* event stream, also when a strong span lies inside another strong span
C28_BoldIffInsideStrong ==
    (IsDocxCall /\ DocxCall.done /\ ~HasTable(DocxCall.items))
        => AllRuns(DocxCall.returned)
              = Bind(DocxCall.items, LAMBDA events : RunsBySpans(events))

\* the text of the runs of a paragraph
RunsText(runs) == Concat([r \in 1..Len(runs) |-> runs[r].children[1].text])

\* the paragraph of the block that ends at event e: its style and its text
BlockOf(events, e) ==
    Bind(LastBefore(events, {"StartHeading", "StartParagraph"}, e),
         LAMBDA s :
            [style |-> IF events[e].type = "EndHeading"
                       THEN Style(HeadingStyle(events[s].level)) ELSE NoStyle,
             text |-> Bind(IndicesOf(events, {"Text"}, s, e),
                           LAMBDA texts :
                              Concat([k \in 1..Len(texts) |-> events[texts[k]].text]))])

\* the heading and paragraph blocks of the events, in order
EventBlocks(events) ==
    Bind(IndicesOf(events, {"EndHeading", "EndParagraph"}, 0, Len(events) + 1),
         LAMBDA ends : [k \in 1..Len(ends) |-> BlockOf(events, ends[k])])

\* C29: markdown_to_docx emits exactly one paragraph for every heading or
\* paragraph block, in document order, and no other paragraph: a heading gives
\* one paragraph styled Heading{level} with the runs of the text inside that
\* heading, a paragraph gives one unstyled paragraph, no paragraph without runs
\* is ever added, and after each emission the pending runs and the text buffer
\* are empty
C29_OneParagraphPerBlock ==
    /\ (IsDocxCall /\ DocxCall.done)
          => LET paragraphs == SelectSeq(DocxCall.returned,
                                         LAMBDA child : child.kind = "Paragraph")
                 blocks == Bind(DocxCall.items, LAMBDA events : EventBlocks(events))
             IN  /\ Len(paragraphs) = Len(blocks)
                 /\ \A k \in 1..Len(paragraphs) :
                       /\ paragraphs[k].children # <<>>
                       /\ paragraphs[k].style = blocks[k].style
                       /\ RunsText(paragraphs[k].children) = blocks[k].text
    /\ IsDocxCall
          => /\ \A k \in 1..Len(DocxCall.st.docx) :
                   DocxCall.st.docx[k].kind = "Paragraph"
                       => DocxCall.st.docx[k].children # <<>>
             /\ (DocxCall.next > 1
                   /\ DocxCall.items[DocxCall.next - 1].type
                          \in {"EndHeading", "EndParagraph"})
                  => DocxCall.st.pending_runs = <<>> /\ DocxCall.st.current_text = <<>>

----------------------------------------------------------------------------
(* Claims about conversion calls that run at the same time.                *)

\* the local variables of a conversion that runs alone, after its first k
\* loop iterations
AloneAfter(fn, items, k) ==
    CASE fn = "markdown_to_docx" -> EventLoop(DocxBuilder, SubSeq(items, 1, k), 1)
      [] fn = "extract_tables_from_markdown" -> TableEventLoop(TableExtractor, items, 1, k)
      [] fn = "pptx_to_markdown" -> [slides |-> ArchiveLoop(<<>>, SubSeq(items, 1, k), 1)]

\* what a conversion returns when it runs alone
AloneReturns(fn, items) ==
    CASE fn = "markdown_to_docx" ->
            Bind(EventLoop(DocxBuilder, items, 1),
                 LAMBDA st : IF st.current_text # <<>> \/ st.pending_runs # <<>>
                             THEN flush_paragraph(st, NoStyle).docx ELSE st.docx)
      [] fn = "extract_tables_from_markdown" ->
            TableEventLoop(TableExtractor, items, 1, Len(items)).tables
      [] fn = "pptx_to_markdown" -> pptx_to_markdown(file.parts)

----------------------------------------------------------------------------
(* Claims about the recent files.                                          *)

\* the places in a history of additions of the latest addition of each path,
\* the latest first
LatestFirst(history) ==
    Reverse(SelectSeq([i \in 1..Len(history) |-> i],
                      LAMBDA i : \A j \in (i + 1)..Len(history) : history[j] # history[i]))

\* the additions behind the list: those before the run, oldest first, and
\* those of the run
Additions == Reverse(recent_files.initial) \o recent_files.added

\* a list of at most 10 paths, none twice, the path added last at the front,
\* the others in the order of their latest addition
InOrderOf(list, additions) ==
    Bind(LatestFirst(additions),
         LAMBDA latest :
            /\ Len(list) <= 10
            /\ \A i, j \in 1..Len(list) : list[i] = list[j] => i = j
            /\ additions # <<>> => list[1] = additions[Len(additions)]
            /\ Len(list) = IF Len(latest) < 10 THEN Len(latest) ELSE 10
            /\ \A i \in 1..Len(list) : list[i] = additions[latest[i]])

\* while no call holds the mutex the list is in the order of the additions
RecentListInOrder ==
    recent_files.locked_by = 0
        => Bind(<<recent_files.list, Additions>>, LAMBDA la : InOrderOf(la[1], la[2]))

\* no step of a get_recent_files call changes the list, and the call returns it
GetRecentFilesStep ==
    \A t \in DOMAIN calls :
        (calls[t].fn = "get_recent_files" /\ calls'[t] # calls[t])
            => /\ recent_files'.list = recent_files.list
               /\ calls[t].at = "collect" => calls'[t].returned = recent_files.list

\* C30: after any sequence of add_recent_file calls from any threads the list
\* of recent files holds at most 10 paths and no path twice, has the path added
\* last at its front and the other paths in the order of their latest
\* addition, and get_recent_files returns that list without changing it
C30_RecentFilesInOrder ==
    [][RecentListInOrder /\ RecentListInOrder' /\ GetRecentFilesStep]_vars

\* a full list to which the calls of the run have added a path it held and a
\* new path, and which get_recent_files has returned
C30_Witness ==
    /\ recent_files.locked_by = 0
    /\ Len(recent_files.initial) = MaxRecent
    /\ \E i, j \in 1..Len(recent_files.added) :
          recent_files.added[i] = "/p2" /\ recent_files.added[j] = "/q1"
    /\ recent_files.list # recent_files.initial
    /\ \E t \in DOMAIN calls : calls[t].returned = recent_files.list

=============================================================================
